---------------------------- MODULE Spec2Model ----------------------------
(***************************************************************************)
(* Model of the HR interview orchestrator: the scoring engine, the         *)
(* shortlist selector, the four-stage pipeline (Screener, Analyst,         *)
(* QuestionWriter, Reviewer), the circuit breaker around the calendar      *)
(* insert (call by call, and step by step for one or several callers), the *)
(* question bank's embedding cache, and graph.main around the pipeline.     *)
(*                                                                         *)
(* Strings are sequences of one-character strings, so that strip(),        *)
(* lower() and the regular-expression substitutions of the code are        *)
(* computed and not assumed.  Scores are integers in units of 1/10000      *)
(* (the code rounds every score to 4 decimals).                            *)
(***************************************************************************)
EXTENDS Integers, Sequences, FiniteSets, TLC

VARIABLES
    pc,                   \* the node about to run, or "Done" / "Failed"
    jd,                   \* state.jd: [title, must_haves, nice_haves]
    candidates,           \* state.candidates: sequence of Candidate records
    shortlisted,          \* state.shortlisted: indices into candidates
    questions,            \* state.questions
    policy_violation,     \* state.policy_violation
    needs_disambiguation, \* state.needs_disambiguation
    schema_ok,            \* state.schema_ok
    violations,           \* state.violations
    cfg,                  \* keyword arguments of analyst()
    env,                  \* what the question bank and the chat model answer in this run
    trace,                \* history: the nodes that have run, in order
    main,                 \* graph.main around the pipeline: how far it got, what it did
    breaker,              \* fallbacks.breaker: the process-wide CircuitBreaker
    now,                  \* time.time()
    call,                 \* the last create_event_or_fallback call and its result
    consec,               \* history: failures recorded since the last success
    thr,                  \* the callers of create_event_or_fallback: where each one is
    ics_file,             \* artifacts/invite.ics
    csv,                  \* the question bank CSV: its rows and its mtime
    cache_vec,            \* artifacts/qbank.npy
    cache_meta,           \* artifacts/qbank_meta.json
    bank                  \* the LocalQuestionBank constructions under way

pipeVars == <<pc, jd, candidates, shortlisted, questions, policy_violation,
              needs_disambiguation, schema_ok, violations, cfg, env, trace, main>>
callVars == <<breaker, now, call, consec>>
threadVars == <<thr, ics_file>>
cacheVars == <<csv, cache_vec, cache_meta, bank>>
vars == <<pc, jd, candidates, shortlisted, questions, policy_violation,
          needs_disambiguation, schema_ok, violations, cfg, env, trace, main,
          breaker, now, call, consec, thr, ics_file,
          csv, cache_vec, cache_meta, bank>>

----------------------------------------------------------------------------
(* Generic helpers *)

Min(a, b) == IF a <= b THEN a ELSE b
Max(a, b) == IF a >= b THEN a ELSE b
Range(s) == {s[i] : i \in 1..Len(s)}
Take(s, n) == SubSeq(s, 1, Min(Max(n, 0), Len(s)))

\* All sequences over S of length lo..hi
SeqsOf(S, lo, hi) == UNION {[1..n -> S] : n \in lo..hi}

----------------------------------------------------------------------------
(* Strings: str.strip, str.lower and the two re.sub calls of _canonize *)

Whitespace == {" "}
\* the character class [\s/|,;]
Separators == Whitespace \cup {"/", "|", ",", ";"}
\* the character class [a-z0-9 +#.\-]
AllowedChars == {"a", "b", "c", "d", "e", "f", "g", "h", "i", "j", "k", "l", "m",
                 "n", "o", "p", "q", "r", "s", "t", "u", "v", "w", "x", "y", "z",
                 "0", "1", "2", "3", "4", "5", "6", "7", "8", "9",
                 " ", "+", "#", ".", "-"}

LowerChar(c) ==
    CASE c = "A" -> "a" [] c = "B" -> "b" [] c = "C" -> "c"
      [] c = "Q" -> "q" [] c = "S" -> "s" [] c = "X" -> "x"
      [] OTHER -> c

StrLower(s) == [i \in 1..Len(s) |-> LowerChar(s[i])]

StrStrip(s) ==
    LET solid == {i \in 1..Len(s) : s[i] \notin Whitespace}
    IN  IF solid = {} THEN <<>>
        ELSE SubSeq(s, CHOOSE i \in solid : \A j \in solid : i <= j,
                       CHOOSE i \in solid : \A j \in solid : i >= j)

\* re.sub(r"[\s/|,;]+", " ", s): every maximal run of separators becomes one space
RECURSIVE CollapseFrom(_, _)
CollapseFrom(s, i) ==
    IF i > Len(s) THEN <<>>
    ELSE IF s[i] \in Separators
         THEN IF i > 1 /\ s[i-1] \in Separators
              THEN CollapseFrom(s, i + 1)
              ELSE <<" ">> \o CollapseFrom(s, i + 1)
         ELSE <<s[i]>> \o CollapseFrom(s, i + 1)

CollapseSeparators(s) == CollapseFrom(s, 1)

\* re.sub(r"[^a-z0-9 +#.\-]", "", s)
DropDisallowed(s) == SelectSeq(s, LAMBDA c : c \in AllowedChars)

CanonOne(s) == DropDisallowed(CollapseSeparators(StrLower(StrStrip(s))))

RECURSIVE _canonize(_)
_canonize(items) ==
    IF items = <<>> THEN <<>>
    ELSE LET s == CanonOne(Head(items))
         IN  (IF s # <<>> THEN <<s>> ELSE <<>>) \o _canonize(Tail(items))

----------------------------------------------------------------------------
(* Scoring engine.  A ratio is a pair [num, den]; a score is an integer     *)
(* number of ten-thousandths.                                              *)

ScoreUnit == 10000

\* _overlap comparing the strings as written, without _canonize
_overlap_raw(required, skills) ==
    LET R == Range(required)
        S == Range(skills)
    IN  IF R = {} THEN [num |-> 0, den |-> 1]
        ELSE [num |-> Cardinality(R \cap S), den |-> Max(1, Cardinality(R))]

_overlap(required, skills) ==
    LET R == Range(_canonize(required))
        S == Range(_canonize(skills))
    IN  IF R = {} THEN [num |-> 0, den |-> 1]
        ELSE [num |-> Cardinality(R \cap S), den |-> Max(1, Cardinality(R))]

\* round(x, 4) of the rational n/d given in ten-thousandths (n, d >= 0, d > 0):
\* to the nearest, an exact half to the even neighbour.  The code rounds a
\* binary float; for requirement sets of up to 8 skills the two agree on every
\* input (no sum 0.7 a/b + 0.3 c/d + bonus lies on a half there).
RoundRatio(n, d) ==
    LET q == n \div d
        r == n % d
    IN  IF 2 * r > d THEN q + 1
        ELSE IF 2 * r < d THEN q
        ELSE IF q % 2 = 0 THEN q ELSE q + 1

\* min(max(years, 0) / 10.0, 0.3) in ten-thousandths
ExpBonus(years) == Min(Max(years, 0) * (ScoreUnit \div 10), (3 * ScoreUnit) \div 10)

\* _score_candidate with the two weights exchanged
_score_candidate_swapped(j, c) ==
    LET must  == _overlap(j.must_haves, c.skills)
        nice  == IF j.nice_haves # <<>> THEN _overlap(j.nice_haves, c.skills)
                 ELSE [num |-> 0, den |-> 1]
        bonus == ExpBonus(c.years_exp)
    IN  RoundRatio(3 * (ScoreUnit \div 10) * must.num * nice.den
                     + 7 * (ScoreUnit \div 10) * nice.num * must.den
                     + bonus * must.den * nice.den,
                   must.den * nice.den)

_score_candidate(j, c) ==
    LET must  == _overlap(j.must_haves, c.skills)
        nice  == IF j.nice_haves # <<>> THEN _overlap(j.nice_haves, c.skills)
                 ELSE [num |-> 0, den |-> 1]
        bonus == ExpBonus(c.years_exp)
    IN  RoundRatio(7 * (ScoreUnit \div 10) * must.num * nice.den
                     + 3 * (ScoreUnit \div 10) * nice.num * must.den
                     + bonus * must.den * nice.den,
                   must.den * nice.den)


\* The scoring loop of _shortlist (lines 40-43): every candidate's score field is
\* overwritten with its score against the job description.
\* a scoring loop that also rewrites the skills in canonical form
ScoreAll_canonizes_skills(j, cands) ==
    [i \in 1..Len(cands) |-> [cands[i] EXCEPT !.score = _score_candidate(j, cands[i]),
                                               !.skills = _canonize(cands[i].skills)]]

ScoreAll(j, cands) ==
    [i \in 1..Len(cands) |-> [cands[i] EXCEPT !.score = _score_candidate(j, cands[i])]]

----------------------------------------------------------------------------
(* Shortlist selector *)

\* list.sort(key=score, reverse=True) is stable: the candidate at index i comes
\* after every higher score and after every equal score with a smaller index.
\* a sort that puts equal scores in reverse input order
RankDesc_unstable(cands, i) ==
    Cardinality({j \in 1..Len(cands) :
                    \/ cands[j].score > cands[i].score
                    \/ cands[j].score = cands[i].score /\ j > i}) + 1

RankDesc(cands, i) ==
    Cardinality({j \in 1..Len(cands) :
                    \/ cands[j].score > cands[i].score
                    \/ cands[j].score = cands[i].score /\ j < i}) + 1

SortedByScoreDesc(cands) ==
    [k \in 1..Len(cands) |-> CHOOSE i \in 1..Len(cands) : RankDesc(cands, i) = k]

\* _shortlist without the top-N fallback for an empty filtered list
_shortlist_no_fallback(j, cands, top_n, min_score) ==
    LET scoredCands == ScoreAll(j, cands)
        order       == SortedByScoreDesc(scoredCands)
        passing     == SelectSeq(order, LAMBDA i : scoredCands[i].score >= min_score)
    IN  [cands |-> scoredCands, list |-> Take(passing, top_n)]

\* _shortlist that takes the top N of the sorted list without filtering
_shortlist_no_filter(j, cands, top_n, min_score) ==
    LET scoredCands == ScoreAll(j, cands)
        order       == SortedByScoreDesc(scoredCands)
    IN  [cands |-> scoredCands, list |-> Take(order, top_n)]

\* _shortlist that filters the candidates in input order, without sorting
_shortlist_input_order(j, cands, top_n, min_score) ==
    LET scoredCands == ScoreAll(j, cands)
        order       == [i \in 1..Len(cands) |-> i]
        passing     == SelectSeq(order, LAMBDA i : scoredCands[i].score >= min_score)
        filtered    == IF passing = <<>> THEN Take(order, top_n) ELSE passing
    IN  [cands |-> scoredCands, list |-> Take(filtered, top_n)]

\* _shortlist(jd, candidates, top_n, min_score): the candidates as the scoring
\* loop leaves them, and the indices it returns.
_shortlist(j, cands, top_n, min_score) ==
    LET scoredCands == ScoreAll(j, cands)
        order       == SortedByScoreDesc(scoredCands)
        passing     == SelectSeq(order, LAMBDA i : scoredCands[i].score >= min_score)
        filtered    == IF passing = <<>> THEN Take(order, top_n) ELSE passing
    IN  [cands |-> scoredCands, list |-> Take(filtered, top_n)]

----------------------------------------------------------------------------
(* Screener *)

\* The seen-set loops of the code: keep the first of the items that are equal
\* ignoring case, in order
RECURSIVE DedupLower(_, _)
DedupLower(items, seen) ==
    IF items = <<>> THEN <<>>
    ELSE LET k == StrLower(Head(items))
         IN  IF k \in seen THEN DedupLower(Tail(items), seen)
             ELSE <<Head(items)>> \o DedupLower(Tail(items), seen \cup {k})

StripAll(items) == [i \in 1..Len(items) |-> StrStrip(items[i])]
LowerAll(items) == [i \in 1..Len(items) |-> StrLower(items[i])]

\* must-haves stripped and freed of blanks, repeats kept
CleanMustHaves_keeps_repeats(must_haves) ==
    SelectSeq(StripAll(must_haves), LAMBDA m : m # <<>>)

CleanMustHaves(must_haves) ==
    LET mh == SelectSeq(StripAll(must_haves), LAMBDA m : m # <<>>)
    IN  DedupLower(mh, {})

\* A node that has run is appended to the history
Ran(node) == trace' = Append(trace, node)

Screener ==
    /\ pc = "Screener"
    /\ LET cleaned == CleanMustHaves(jd.must_haves)
       IN  /\ jd' = [jd EXCEPT !.must_haves = cleaned]
           /\ needs_disambiguation' = (needs_disambiguation \/ Len(cleaned) < 3)
    /\ pc' = "Analyst"
    /\ Ran("Screener")
    /\ UNCHANGED <<candidates, shortlisted, questions, policy_violation,
                   schema_ok, violations, cfg, env>>
    /\ UNCHANGED <<main, callVars, threadVars, cacheVars>>

----------------------------------------------------------------------------
(* Analyst *)

\* OrchestratorState is a pydantic BaseModel that declares no field
\* needs_disambiguination and does not allow extra attributes, so the assignment
\* at line 78 raises ValueError: the widening branch leaves the node by exception
\* before needs_disambiguation is set and before state.shortlisted is assigned.
\* The scores written by the first _shortlist call stay.
MinShortlist == 3

AnalystWidens(first) == Len(first.list) < MinShortlist /\ Len(candidates) >= MinShortlist

Analyst ==
    /\ pc = "Analyst"
    /\ LET first == _shortlist(jd, candidates, cfg.top_n_first, cfg.min_score_first)
       IN  /\ candidates' = first.cands
           /\ IF AnalystWidens(first)
              THEN /\ pc' = "Failed"
                   /\ UNCHANGED shortlisted
              ELSE /\ pc' = "QuestionWriter"
                   /\ shortlisted' = first.list
    /\ Ran("Analyst")
    /\ UNCHANGED <<jd, questions, policy_violation, needs_disambiguation,
                   schema_ok, violations, cfg, env>>
    /\ UNCHANGED <<main, callVars, threadVars, cacheVars>>

----------------------------------------------------------------------------
(* Schema validator *)

MidMinQuestions == 5
MidMaxQuestions == 20
FinalMinQuestions == 5
FinalMaxQuestions == 20
TitleMinLength == 2
MinTopCandidates == 1

MsgBadName    == "Shortlisted candidate missing valid name"
MsgTooFew     == "Too few questions (<5)"
MsgTooMany    == "Too many questions (>20)"
MsgFinalError == "FinalOutput validation error"

\* a mid-pipeline validation that does not look at the shortlisted names
validate_state_transition_no_names(cands, short, qs) ==
    LET q_clean == SelectSeq(qs, LAMBDA q : StrStrip(q) # <<>>)
    IN  (IF Len(q_clean) < MidMinQuestions THEN <<MsgTooFew>> ELSE <<>>)
        \o (IF Len(q_clean) > MidMaxQuestions THEN <<MsgTooMany>> ELSE <<>>)

\* validate_state_transition: the list of violations (ok iff it is empty)
validate_state_transition(cands, short, qs) ==
    LET badNames == SelectSeq(short, LAMBDA i : StrStrip(cands[i].name) = <<>>)
        q_clean  == SelectSeq(qs, LAMBDA q : StrStrip(q) # <<>>)
    IN  [k \in 1..Len(badNames) |-> MsgBadName]
        \o (IF Len(q_clean) < MidMinQuestions THEN <<MsgTooFew>> ELSE <<>>)
        \o (IF Len(q_clean) > MidMaxQuestions THEN <<MsgTooMany>> ELSE <<>>)

\* validate_final_output: FinalOutput(**data) raises ValidationError, reported as
\* one message, unless every field constraint holds
validate_final_output(j, short, qs) ==
    IF /\ Len(j.title) >= TitleMinLength
       /\ Len(short) >= MinTopCandidates
       /\ Len(qs) >= FinalMinQuestions
       /\ Len(qs) <= FinalMaxQuestions
    THEN <<>> ELSE <<MsgFinalError>>

\* a violation list that forgets what it held
extend_overwrite(list, errs) == errs

\* state.violations.extend(errs)
extend(list, errs) == list \o errs

----------------------------------------------------------------------------
(* QuestionWriter *)

TargetMin == 8
TargetMax == 12
MinLineLength == 5

\* str.lstrip("-")
RECURSIVE LStripDash(_)
LStripDash(s) ==
    IF s # <<>> /\ Head(s) = "-" THEN LStripDash(Tail(s)) ELSE s

CleanLine(l) == StrStrip(LStripDash(StrStrip(l)))

\* a top-up loop that does not look at the seen-set
RECURSIVE TopUp_ignores_seen(_, _, _)
TopUp_ignores_seen(tailored, seen, rest) ==
    IF rest = <<>> \/ Len(tailored) >= TargetMin THEN tailored
    ELSE TopUp_ignores_seen(Append(tailored, Head(rest)), seen, Tail(rest))

\* the top-up loop (lines 124-128): retrieved questions not seen yet are appended
\* while fewer than target_min are held
RECURSIVE TopUp(_, _, _)
TopUp(tailored, seen, rest) ==
    IF rest = <<>> \/ Len(tailored) >= TargetMin THEN tailored
    ELSE LET q == Head(rest)
             k == StrLower(q)
         IN  IF k \in seen THEN TopUp(tailored, seen, Tail(rest))
             ELSE TopUp(Append(tailored, q), seen \cup {k}, Tail(rest))

\* lines 116-131: the questions when the chat completion returns `lines`
TailoredQuestions(lines, retr) ==
    LET kept     == SelectSeq([i \in 1..Len(lines) |-> CleanLine(lines[i])],
                              LAMBDA l : Len(l) > MinLineLength)
        tailored == DedupLower(kept, {})
        topped   == TopUp(tailored, Range(LowerAll(tailored)), retr)
    IN  IF Len(topped) > TargetMax THEN Take(topped, TargetMax) ELSE topped

\* the loop of the except branch without its seen-set
RECURSIVE FallbackLoop_no_dedup(_, _, _)
FallbackLoop_no_dedup(fb, seen, rest) ==
    IF rest = <<>> THEN fb
    ELSE LET fb2 == Append(fb, Head(rest))
         IN  IF Len(fb2) >= TargetMax THEN fb2
             ELSE FallbackLoop_no_dedup(fb2, seen, Tail(rest))

\* the loop of the except branch (lines 134-139)
RECURSIVE FallbackLoop(_, _, _)
FallbackLoop(fb, seen, rest) ==
    IF rest = <<>> THEN fb
    ELSE LET q   == Head(rest)
             k   == StrLower(q)
             fb2 == IF k \in seen THEN fb ELSE Append(fb, q)
         IN  IF Len(fb2) >= TargetMax THEN fb2
             ELSE FallbackLoop(fb2, seen \cup {k}, Tail(rest))

\* line 140
FallbackQuestions(retr) ==
    LET fb == FallbackLoop(<<>>, {}, retr)
    IN  Take(fb, Max(TargetMin, Min(TargetMax, Len(fb))))

\* needs_review (graph.py 39-40), the condition of the edge out of QuestionWriter
needs_review_schema_only(ok, policy) == ~ok

needs_review(ok, policy) == ~ok \/ policy

\* LocalQuestionBank(csv_path) and kb.search run before the try block: a missing
\* or empty CSV, or a failing embedding call, leaves the node by exception.
QuestionWriter ==
    /\ pc = "QuestionWriter"
    /\ IF ~env.kb_ok
       THEN /\ pc' = "Failed"
            /\ UNCHANGED <<questions, schema_ok, violations>>
       ELSE LET qs   == IF env.llm_ok THEN TailoredQuestions(env.lines, env.retrieved)
                        ELSE FallbackQuestions(env.retrieved)
                errs == validate_state_transition(candidates, shortlisted, qs)
            IN  /\ questions' = qs
                /\ schema_ok' = (errs = <<>>)
                /\ violations' = extend(violations, errs)
                \* add_conditional_edges (graph.py 45)
                /\ pc' = IF needs_review(schema_ok', policy_violation)
                         THEN "Reviewer" ELSE "Done"
    /\ Ran("QuestionWriter")
    /\ UNCHANGED <<jd, candidates, shortlisted, policy_violation,
                   needs_disambiguation, cfg, env>>
    /\ UNCHANGED <<main, callVars, threadVars, cacheVars>>

----------------------------------------------------------------------------
(* Reviewer *)

ReviewMin == 8
ReviewMax == 12

\* a template that names a skill of its own
Template_own_skill(skill) ==
    <<"C","a","n"," ","y","o","u"," ","s","h","a","r","e"," ","a"," ",
      "r","e","c","e","n","t"," ","e","x","a","m","p","l","e"," ",
      "u","s","i","n","g"," ","G","o","?">>

\* f"Can you share a recent example using {skill}?"
Template(skill) ==
    <<"C","a","n"," ","y","o","u"," ","s","h","a","r","e"," ","a"," ",
      "r","e","c","e","n","t"," ","e","x","a","m","p","l","e"," ",
      "u","s","i","n","g"," ">> \o skill \o <<"?">>

\* lines 158-166
CleanQuestions(qs) ==
    DedupLower(SelectSeq(StripAll(qs), LAMBDA q : q # <<>>), {})

\* lines 168-173: one templated question per non-blank must-have, in order, while
\* fewer than 8 questions are held
RECURSIVE TopUpFromMustHaves(_, _)
TopUpFromMustHaves(q_clean, must) ==
    IF must = <<>> \/ Len(q_clean) >= ReviewMin THEN q_clean
    ELSE LET skill == StrStrip(Head(must))
         IN  TopUpFromMustHaves(IF skill # <<>> THEN Append(q_clean, Template(skill))
                                ELSE q_clean,
                                Tail(must))

RepairQuestions(qs, must) == Take(TopUpFromMustHaves(CleanQuestions(qs), must), ReviewMax)

\* a promotion that takes the last of the best-scoring candidates
RepairShortlist_last_of_equals(short, cands) ==
    IF short = <<>> /\ cands # <<>>
    THEN <<CHOOSE i \in 1..Len(cands) :
             \A k \in 1..Len(cands) :
                \/ cands[k].score < cands[i].score
                \/ (cands[k].score = cands[i].score /\ k <= i)>>
    ELSE short

\* lines 177-179
RepairShortlist(short, cands) ==
    IF short = <<>> /\ cands # <<>> THEN Take(SortedByScoreDesc(cands), 1) ELSE short

Reviewer ==
    /\ pc = "Reviewer"
    /\ LET qs     == RepairQuestions(questions, jd.must_haves)
           short  == RepairShortlist(shortlisted, candidates)
           errs   == validate_state_transition(candidates, short, qs)
           ferrs  == validate_final_output(jd, short, qs)
       IN  /\ questions' = qs
           /\ shortlisted' = short
           /\ schema_ok' = (ferrs = <<>>)
           /\ violations' = extend(extend(violations, errs), ferrs)
    /\ pc' = "Done"
    /\ Ran("Reviewer")
    /\ UNCHANGED <<jd, candidates, policy_violation, needs_disambiguation, cfg, env>>
    /\ UNCHANGED <<main, callVars, threadVars, cacheVars>>

----------------------------------------------------------------------------
(* graph.main: the pipeline run inside its try block, then the final         *)
(* validation, the e-mail drafts, the calendar invites and the report        *)

\* main before the pipeline has ended, in the first run from this working
\* directory: nothing drafted, no remote insert tried, no report written
MainIdle == [run |-> 1, status |-> "running", emails |-> 0, remote_inserts |-> 0,
             remote_failures |-> 0, report |-> FALSE]

\* lines 179-184: an exception out of app.invoke is shown and main returns 1
MainGraphFails ==
    /\ pc = "Failed"
    /\ main.status = "running"
    /\ main' = [main EXCEPT !.status = "returned 1"]
    /\ UNCHANGED <<pc, jd, candidates, shortlisted, questions, policy_violation,
                   needs_disambiguation, schema_ok, violations, cfg, env, trace>>
    /\ UNCHANGED <<callVars, threadVars, cacheVars>>

\* lines 197: sorted(state.shortlisted, ...)[:schedule_count], by its length
TopCandidatesCount(short, schedule_top_n) == Min(Len(short), schedule_top_n)

\* lines 192-289 by what they leave behind, for n_top top candidates (the
\* cases are told apart in the comment of MainAfterGraph below)
AfterGraph(m, n_top, use_real_calendar, gcal_ok) ==
    IF n_top > 0
    THEN [m EXCEPT !.status = "TypeError", !.emails = n_top]
    ELSE [m EXCEPT !.status = "UnboundLocalError",
                   !.remote_inserts = IF use_real_calendar THEN 1 ELSE 0,
                   !.remote_failures = IF use_real_calendar /\ ~gcal_ok THEN 1 ELSE 0]

\* lines 188-312, for SCHEDULE_TOP_N = schedule_top_n >= 0 and USE_REAL_CALENDAR =
\* use_real_calendar; gcal_ok tells whether the Google Calendar insert succeeds.
\*  - 188-190: the final validation overwrites schema_ok and extends violations.
\*  - 198-214: one e-mail is drafted per top candidate.
\*  - 231-241: the first turn of the invite loop calls create_event_or_fallback
\*    with the keyword ics_filename, which the function does not take: TypeError,
\*    raised before the function body runs, outside every try block.
\*  - With no top candidate the loop is skipped and cal_res is never bound.  Lines
\*    264-279 then call create_calendar_event directly when USE_REAL_CALENDAR is
\*    set; whatever it raises, and the UnboundLocalError of line 276 when it
\*    returns, is swallowed by `except Exception: pass`.  Line 289 reads cal_res:
\*    UnboundLocalError, outside every try block.
\* Either way main leaves by exception before generate_summary_report (line 305)
\* and json.dump (line 312) are reached.
MainAfterGraph(schedule_top_n, use_real_calendar, gcal_ok) ==
    /\ pc = "Done"
    /\ main.status = "running"
    /\ LET ferrs == validate_final_output(jd, shortlisted, questions)
           n_top == TopCandidatesCount(shortlisted, schedule_top_n)
       IN  /\ schema_ok' = (ferrs = <<>>)
           /\ violations' = extend(violations, ferrs)
           /\ main' = AfterGraph(main, n_top, use_real_calendar, gcal_ok)
    /\ UNCHANGED <<pc, jd, candidates, shortlisted, questions, policy_violation,
                   needs_disambiguation, cfg, env, trace>>
    \* no breaker call is made: create_calendar_event goes straight to the API
    /\ UNCHANGED <<callVars, threadVars, cacheVars>>

----------------------------------------------------------------------------
(* Resilient call layer: fallbacks.CircuitBreaker and                       *)
(* calendar.create_event_or_fallback.  Time is counted in whole seconds.    *)

RetryAttempts == 3

\* allow that lets an Open breaker through before open_until
allow_ignores_cooldown(b, t) ==
    IF b.state = "OPEN"
    THEN [ok |-> TRUE, b |-> [b EXCEPT !.state = "HALF"]]
    ELSE [ok |-> TRUE, b |-> b]

\* CircuitBreaker.allow at time t: the answer and the breaker it leaves
allow(b, t) ==
    IF b.state = "OPEN"
    THEN IF t >= b.open_until
         THEN [ok |-> TRUE, b |-> [b EXCEPT !.state = "HALF"]]
         ELSE [ok |-> FALSE, b |-> b]
    ELSE [ok |-> TRUE, b |-> b]

\* record_success that keeps the failure count
record_success_keeps_count(b) ==
    [b EXCEPT !.state = "CLOSED", !.open_until = 0]

record_success(b) ==
    [b EXCEPT !.failures = 0, !.state = "CLOSED", !.open_until = 0]

\* record_failure that opens the breaker without a resume time
record_failure_no_resume_time(b, t) ==
    IF b.state = "HALF"
    THEN [b EXCEPT !.state = "OPEN", !.failures = b.threshold]
    ELSE LET n == b.failures + 1
         IN  IF n >= b.threshold
             THEN [b EXCEPT !.failures = n, !.state = "OPEN"]
             ELSE [b EXCEPT !.failures = n]

record_failure(b, t) ==
    IF b.state = "HALF"
    THEN [b EXCEPT !.state = "OPEN", !.open_until = t + b.cooldown_s,
                   !.failures = b.threshold]
    ELSE LET n == b.failures + 1
         IN  IF n >= b.threshold
             THEN [b EXCEPT !.failures = n, !.state = "OPEN",
                            !.open_until = t + b.cooldown_s]
             ELSE [b EXCEPT !.failures = n]

\* _attempt_insert under retry_policy(attempts=3): an insert function that raises
\* on its first `fails` invocations is invoked until it returns or 3 times
InsertInvocations(fails) == Min(fails + 1, RetryAttempts)
InsertSucceeds(fails) == fails < RetryAttempts

\* One call create_event_or_fallback(title, when, insert_fn=...) at time `now`:
\*   use_real  whether USE_REAL_CALENDAR is "1"
\*   has_fn    whether an insert function is given
\*   fails     how many times that function raises before it returns
\*   d         the seconds the attempts and their back-off waits take
CreateEvent(use_real, has_fn, fails, d) ==
    LET gate == allow(breaker, now)
        done(status, inserts) ==
            call' = [flip |-> ~call.flip, use_real |-> use_real, has_fn |-> has_fn,
                     ics_written |-> TRUE, status |-> status, inserts |-> inserts]
    IN  /\ IF ~use_real \/ ~has_fn
           THEN /\ done("skipped_disabled", 0)
                /\ UNCHANGED <<breaker, now, consec>>
           ELSE IF ~gate.ok
           THEN /\ done("breaker_open", 0)
                /\ breaker' = gate.b
                /\ UNCHANGED <<now, consec>>
           ELSE /\ now' = now + d
                /\ IF InsertSucceeds(fails)
                   THEN /\ breaker' = record_success(gate.b)
                        /\ consec' = 0
                        /\ done("inserted", InsertInvocations(fails))
                   ELSE /\ breaker' = record_failure(gate.b, now')
                        /\ consec' = consec + 1
                        /\ done("fallback_ics", InsertInvocations(fails))
        /\ UNCHANGED <<pipeVars, threadVars, cacheVars>>

\* time passes between calls
Tick ==
    /\ now' = now + 1
    /\ UNCHANGED <<breaker, call, consec>>
    /\ UNCHANGED <<pipeVars, threadVars, cacheVars>>

----------------------------------------------------------------------------
(* create_event_or_fallback step by step, for one caller or for several      *)
(* callers of the process-wide breaker.  A datetime is a count of minutes;  *)
(* an aware one (tzinfo is not None) carries its UTC offset in minutes.     *)

DayMinutes == 1440
NoIcs == [written |-> FALSE]

\* _ensure_dt_utc that keeps the wall-clock time of an aware datetime
_ensure_dt_utc_wall_clock(w) == w.t

\* _ensure_dt_utc: a naive datetime is taken as UTC (replace(tzinfo=utc)), an
\* aware one is converted (astimezone(utc))
_ensure_dt_utc(w) == IF ~w.aware THEN w.t ELSE w.t - w.off

\* _fmt_ics_dt: strftime("%Y%m%dT%H%M%SZ") writes the date and the time of day
_fmt_ics_dt(dt_utc) == [date |-> dt_utc \div DayMinutes, hm |-> dt_utc % DayMinutes]

\* a _write_ics that writes no file
_write_ics_nothing(start_utc, duration_min) == NoIcs

\* _write_ics: the file it writes
_write_ics(start_utc, duration_min) ==
    [written |-> TRUE,
     uid     |-> start_utc * 60,
     dtstamp |-> _fmt_ics_dt(start_utc),
     dtstart |-> _fmt_ics_dt(start_utc),
     dtend   |-> _fmt_ics_dt(start_utc + duration_min)]

\* stop_after_attempt that gives up one attempt early
stop_after_attempt_early(attempt_number) == attempt_number >= RetryAttempts - 1

\* retry_policy(attempts=3): stop=stop_after_attempt(3)
stop_after_attempt(attempt_number) == attempt_number >= RetryAttempts

\* wait_exponential(min=1, max=8): 2^(attempt-1) seconds clamped to 1..8
wait_exponential(attempt_number) == Max(1, Min(2 ^ (attempt_number - 1), 8))

\* record_failure from HALF that keeps the old resume time
record_failure_half_stale(b, t) ==
    [b EXCEPT !.state = "OPEN", !.failures = b.threshold]

\* record_failure, lines 37-42: the HALF branch
record_failure_half(b, t) ==
    [b EXCEPT !.state = "OPEN", !.open_until = t + b.cooldown_s,
              !.failures = b.threshold]

\* record_failure, line 43: self.failures += 1 reads the attribute and then
\* stores the sum; nothing keeps another thread from running in between
record_failure_store(b, loaded) == [b EXCEPT !.failures = loaded + 1]

\* record_failure, lines 44-46
record_failure_trip(b, t) ==
    IF b.failures >= b.threshold
    THEN [b EXCEPT !.state = "OPEN", !.open_until = t + b.cooldown_s]
    ELSE b

\* a caller that is not inside create_event_or_fallback; `probe`, `t_rec` and
\* `won` are history: whether allow() moved the breaker to HALF for this call,
\* when the call recorded its outcome, whether a call of this caller has ever
\* returned inserted
IdleThread ==
    [pc |-> "idle", fails |-> 0, when |-> [t |-> 0, aware |-> FALSE, off |-> 0], dur |-> 0,
     ics |-> NoIcs, path |-> FALSE, inserts |-> 0, probe |-> FALSE, tmp |-> 0,
     retry_at |-> 0, status |-> "none", t_rec |-> 0, won |-> FALSE]

Threads == DOMAIN thr

\* the call returns {"status": status, "ics_path": ...}
Return(rec, status) == [rec EXCEPT !.pc = "idle", !.status = status]

\* lines 88-93: the call is entered with
\*   use_real, has_fn   USE_REAL_CALENDAR == "1", insert_fn is not None
\*   fails              how many times insert_fn raises before it returns
\*   valid, w           when_dt, an ISO string fromisoformat may reject
\*   d                  duration_min
CallBegin(t, use_real, has_fn, fails, valid, w, d) ==
    /\ thr[t].pc = "idle"
    /\ LET fresh == [IdleThread EXCEPT !.fails = fails, !.when = w, !.dur = d,
                                       !.won = thr[t].won]
       IN  IF ~valid
           THEN \* _ensure_dt_utc raises ValueError
                /\ thr' = [thr EXCEPT ![t] = Return(fresh, "raised")]
                /\ UNCHANGED ics_file
           ELSE LET content == _write_ics(_ensure_dt_utc(w), d)
                    entered == [fresh EXCEPT !.ics = content, !.path = content.written]
                IN  /\ ics_file' = content
                    /\ thr' = [thr EXCEPT ![t] =
                                  IF ~use_real \/ ~has_fn
                                  THEN Return(entered, "skipped_disabled")
                                  ELSE [entered EXCEPT !.pc = "allow", !.status = "running"]]
    /\ UNCHANGED <<callVars, pipeVars, cacheVars>>

\* lines 95-96
Allow(t) ==
    /\ thr[t].pc = "allow"
    /\ LET gate == allow(breaker, now)
       IN  /\ breaker' = gate.b
           /\ thr' = [thr EXCEPT ![t] =
                         IF gate.ok
                         THEN [@ EXCEPT !.pc = "insert",
                                        !.probe = (breaker.state = "OPEN")]
                         ELSE Return(@, "breaker_open")]
    /\ UNCHANGED <<now, call, consec, ics_file>>
    /\ UNCHANGED <<pipeVars, cacheVars>>

\* line 106: one invocation of insert_fn by _attempt_insert; tenacity sleeps
\* wait_exponential before the next one and re-raises after the last
Insert(t) ==
    /\ thr[t].pc = "insert"
    /\ now >= thr[t].retry_at
    /\ LET k == thr[t].inserts + 1
       IN  thr' = [thr EXCEPT ![t] =
                      IF k <= thr[t].fails
                      THEN IF stop_after_attempt(k)
                           THEN [@ EXCEPT !.inserts = k, !.pc = "record_failure"]
                           ELSE [@ EXCEPT !.inserts = k,
                                          !.retry_at = now + wait_exponential(k)]
                      ELSE [@ EXCEPT !.inserts = k, !.pc = "record_success"]]
    /\ UNCHANGED <<callVars, ics_file>>
    /\ UNCHANGED <<pipeVars, cacheVars>>

\* lines 107-108
RecordSuccess(t) ==
    /\ thr[t].pc = "record_success"
    /\ breaker' = record_success(breaker)
    /\ consec' = 0
    /\ thr' = [thr EXCEPT ![t] = Return([@ EXCEPT !.t_rec = now, !.won = TRUE], "inserted")]
    /\ UNCHANGED <<now, call, ics_file>>
    /\ UNCHANGED <<pipeVars, cacheVars>>

\* line 110, record_failure entered: the HALF branch, or the read of
\* self.failures
RecordFailure(t) ==
    /\ thr[t].pc = "record_failure"
    /\ IF breaker.state = "HALF"
       THEN /\ breaker' = record_failure_half(breaker, now)
            /\ consec' = consec + 1
            /\ thr' = [thr EXCEPT ![t] = Return([@ EXCEPT !.t_rec = now], "fallback_ics")]
       ELSE /\ thr' = [thr EXCEPT ![t] = [@ EXCEPT !.pc = "store", !.tmp = breaker.failures]]
            /\ UNCHANGED <<breaker, consec>>
    /\ UNCHANGED <<now, call, ics_file>>
    /\ UNCHANGED <<pipeVars, cacheVars>>

\* record_failure line 43: the store of self.failures
StoreFailures(t) ==
    /\ thr[t].pc = "store"
    /\ breaker' = record_failure_store(breaker, thr[t].tmp)
    /\ thr' = [thr EXCEPT ![t] = [@ EXCEPT !.pc = "trip"]]
    /\ UNCHANGED <<now, call, consec, ics_file>>
    /\ UNCHANGED <<pipeVars, cacheVars>>

\* record_failure lines 44-46, and line 111
TripAndReturn(t) ==
    /\ thr[t].pc = "trip"
    /\ breaker' = record_failure_trip(breaker, now)
    /\ consec' = consec + 1
    /\ thr' = [thr EXCEPT ![t] = Return([@ EXCEPT !.t_rec = now], "fallback_ics")]
    /\ UNCHANGED <<now, call, ics_file>>
    /\ UNCHANGED <<pipeVars, cacheVars>>

----------------------------------------------------------------------------
(* Retrieval cache: LocalQuestionBank.__init__ step by step, for processes   *)
(* that share the CSV and the two cache files                               *)

EMBED_MODEL == "text-embedding-3-small"
_expected_dim == 1536

NoCsv == [exists |-> FALSE, rows |-> <<>>, mtime |-> 0]
NoVec == [exists |-> FALSE]
NoMeta == [exists |-> FALSE]
NoEmb == [src |-> "none"]
IdleBank == [pc |-> "idle", corpus |-> <<>>, decided |-> "none", emb |-> NoEmb]

\* _load_csv: the rows whose role and question are both non-blank, stripped
_load_csv(rows) ==
    SelectSeq([i \in 1..Len(rows) |-> [role |-> StrStrip(rows[i].role),
                                       question |-> StrStrip(rows[i].question)]],
              LAMBDA r : r.role # <<>> /\ r.question # <<>>)

\* line 93: f"{r['role']} :: {r['question']}" for every row
CorpusOf(loaded) ==
    [i \in 1..Len(loaded) |-> loaded[i].role \o <<" ", ":", ":", " ">> \o loaded[i].question]

\* "\n".join(corpus)
RECURSIVE JoinLines(_)
JoinLines(corpus) ==
    IF corpus = <<>> THEN <<>>
    ELSE IF Len(corpus) = 1 THEN corpus[1]
    ELSE corpus[1] \o <<"\n">> \o JoinLines(Tail(corpus))

\* _sha256_text: the digest stands for the text it is the digest of (no two
\* texts met here collide)
_sha256_text(txt) == txt

\* _cache_valid without the row count
_cache_valid_no_rows(vec, meta, mtime, corpus) ==
    /\ vec.exists
    /\ meta.exists
    /\ meta.readable
    /\ meta.model = EMBED_MODEL
    /\ meta.csv_mtime = mtime
    /\ meta.corpus_sha256 = _sha256_text(JoinLines(corpus))
    /\ meta.dim = _expected_dim

\* _cache_valid: both files exist, the meta file parses, and its model,
\* csv_mtime, rows, corpus_sha256 and dim are the current ones
_cache_valid(vec, meta, mtime, corpus) ==
    /\ vec.exists
    /\ meta.exists
    /\ meta.readable
    /\ meta.model = EMBED_MODEL
    /\ meta.csv_mtime = mtime
    /\ meta.rows = Len(corpus)
    /\ meta.corpus_sha256 = _sha256_text(JoinLines(corpus))
    /\ meta.dim = _expected_dim

\* embed_texts(corpus): one 1536-dimensional vector per text
embed_texts(corpus) ==
    [src |-> "built", of |-> corpus, model |-> EMBED_MODEL, dim |-> _expected_dim,
     state |-> "complete"]

\* the meta record of lines 139-146
MetaOf(corpus, emb, mtime) ==
    [exists |-> TRUE, readable |-> TRUE, model |-> EMBED_MODEL, csv_mtime |-> mtime,
     rows |-> Len(corpus), corpus_sha256 |-> _sha256_text(JoinLines(corpus)),
     dim |-> emb.dim]

\* the array file np.save leaves
VecOf(emb) == [exists |-> TRUE, of |-> emb.of, model |-> emb.model, dim |-> emb.dim,
               state |-> "complete"]

BankUnchanged ==
    /\ UNCHANGED <<callVars, threadVars>>
    /\ UNCHANGED pipeVars

\* lines 87-93: a missing CSV raises FileNotFoundError, one without a usable row
\* raises ValueError
Construct(p) ==
    /\ bank[p].pc = "idle"
    /\ LET loaded == _load_csv(csv.rows)
       IN  bank' = [bank EXCEPT ![p] =
                       IF ~csv.exists \/ loaded = <<>>
                       THEN [IdleBank EXCEPT !.pc = "failed"]
                       ELSE [IdleBank EXCEPT !.pc = "check", !.corpus = CorpusOf(loaded)]]
    /\ UNCHANGED <<csv, cache_vec, cache_meta>>
    /\ BankUnchanged

\* line 132
CheckCache(p) ==
    /\ bank[p].pc = "check"
    /\ bank' = [bank EXCEPT ![p] =
                   IF _cache_valid(cache_vec, cache_meta, csv.mtime, bank[p].corpus)
                   THEN [@ EXCEPT !.pc = "load", !.decided = "load"]
                   ELSE [@ EXCEPT !.pc = "embed", !.decided = "rebuild"]]
    /\ UNCHANGED <<csv, cache_vec, cache_meta>>
    /\ BankUnchanged

\* line 133: np.load of a file that is missing or still being written raises;
\* otherwise self.emb is the array in the file
LoadVec(p) ==
    /\ bank[p].pc = "load"
    /\ bank' = [bank EXCEPT ![p] =
                   IF ~cache_vec.exists \/ cache_vec.state = "partial"
                   THEN [@ EXCEPT !.pc = "failed"]
                   ELSE [@ EXCEPT !.pc = "ready",
                                  !.emb = [src |-> "loaded", of |-> cache_vec.of,
                                           model |-> cache_vec.model, dim |-> cache_vec.dim,
                                           state |-> cache_vec.state]]]
    /\ UNCHANGED <<csv, cache_vec, cache_meta>>
    /\ BankUnchanged

\* line 137: embed_texts returns, or the embedding service raises
Embed(p, ok) ==
    /\ bank[p].pc = "embed"
    /\ bank' = [bank EXCEPT ![p] =
                   IF ok THEN [@ EXCEPT !.pc = "save", !.emb = embed_texts(bank[p].corpus)]
                   ELSE [@ EXCEPT !.pc = "failed"]]
    /\ UNCHANGED <<csv, cache_vec, cache_meta>>
    /\ BankUnchanged

\* line 138, np.save opens artifacts/qbank.npy for writing, in place
SaveBegin(p) ==
    /\ bank[p].pc = "save"
    /\ cache_vec' = [VecOf(bank[p].emb) EXCEPT !.state = "partial"]
    /\ bank' = [bank EXCEPT ![p] = [@ EXCEPT !.pc = "saving"]]
    /\ UNCHANGED <<csv, cache_meta>>
    /\ BankUnchanged

\* line 138, np.save has written the array; with another process writing other
\* vectors to the same file at the same time the bytes may be of both
SaveEnd(p, torn) ==
    /\ bank[p].pc = "saving"
    /\ torn => \E q \in DOMAIN bank :
                  q # p /\ bank[q].pc = "saving" /\ bank[q].corpus # bank[p].corpus
    /\ cache_vec' = [VecOf(bank[p].emb) EXCEPT !.state = IF torn THEN "torn" ELSE "complete"]
    /\ bank' = [bank EXCEPT ![p] = [@ EXCEPT !.pc = "meta"]]
    /\ UNCHANGED <<csv, cache_meta>>
    /\ BankUnchanged

\* line 147, open(cache_meta, "w"): the file is there and empty
MetaBegin(p) ==
    /\ bank[p].pc = "meta"
    /\ cache_meta' = [exists |-> TRUE, readable |-> FALSE]
    /\ bank' = [bank EXCEPT ![p] = [@ EXCEPT !.pc = "dumping"]]
    /\ UNCHANGED <<csv, cache_vec>>
    /\ BankUnchanged

\* lines 139-148: json.dump of the record, csv_mtime read when it is built
MetaEnd(p) ==
    /\ bank[p].pc = "dumping"
    /\ cache_meta' = MetaOf(bank[p].corpus, bank[p].emb, csv.mtime)
    /\ bank' = [bank EXCEPT ![p] = [@ EXCEPT !.pc = "ready"]]
    /\ UNCHANGED <<csv, cache_vec>>
    /\ BankUnchanged

\* someone saves the CSV with these rows, or with the rows it has
WriteCsv(rows) ==
    /\ csv' = [exists |-> TRUE, rows |-> rows, mtime |-> csv.mtime + 1]
    /\ UNCHANGED <<cache_vec, cache_meta, bank>>
    /\ BankUnchanged

----------------------------------------------------------------------------
(* Inputs *)

MaxMust == 3        \* must-haves in a job description
MaxCands == 3       \* candidates in a pipeline run
MaxRetrieved == 13  \* questions the bank returns (top_k is 16)

\* raw skill strings, as a resume or a job description spells them
sk_a     == <<"a">>
sk_A     == <<" ", "A">>       \* canonicalizes to "a"
sk_b     == <<"b">>
sk_bsep  == <<"B", "/", ";">>  \* canonicalizes to "b " (the separator run becomes a space)
sk_c     == <<"c">>
sk_sym   == <<"!">>            \* canonicalizes to the empty string
sk_blank == <<" ">>

PlainSkills == <<sk_a, sk_b, sk_c, <<"d">>, <<"e">>, <<"f">>, <<"g">>, <<"h">>, <<"i">>>>
MessySkills == <<sk_a, sk_A, sk_blank, sk_b, sk_sym, sk_c, sk_bsep, <<"d">>, <<"e">>>>

\* must-have lists: the first m entries of a plain or a messy list
MustHaveInputs ==
    {Take(base, m) : base \in {PlainSkills, MessySkills}, m \in 1..MaxMust}

DefaultTitle == <<"d", "e", "v">>

NewCandidate(name, years, skills) ==
    [name |-> name, years_exp |-> years, skills |-> skills, score |-> 0]

Strong  == NewCandidate(<<"x">>, 5, <<sk_A, sk_b, sk_c>>)
Partial == NewCandidate(<<"y">>, 1, <<sk_a>>)
Weak    == NewCandidate(<<"z">>, 0, <<>>)
Unnamed == NewCandidate(<<" ">>, 0, <<sk_sym>>)

\* candidate pools of a pipeline run: the first n of a few resume directories
PoolInputs ==
    {Take(base, n) : n \in 0..MaxCands,
                     base \in {[i \in 1..MaxCands |-> Strong],
                               [i \in 1..MaxCands |-> IF i % 2 = 1 THEN Strong ELSE Partial],
                               [i \in 1..MaxCands |-> IF i = 1 THEN Unnamed ELSE Weak]}}

\* analyst(state, top_n_first=5, min_score_first=0.35, ...)
DefaultTopN == 5
DefaultMinScore == 3500
DefaultCfg == [top_n_first |-> DefaultTopN, min_score_first |-> DefaultMinScore]

\* a threshold no score reaches (scores are at most 13000)
HighMinScore == 20000

\* question texts
Digits == <<"1", "2", "3", "4", "5", "6", "7", "8", "9", "a", "b", "c", "d", "e",
            "f", "g", "h", "i", "j", "k">>
BankQuestion(i, upper) ==
    <<IF upper THEN "Q" ELSE "q", "u", "e", "s", "t", Digits[i]>>
TailoredLine(i, upper) ==
    <<"-", " ", "t", "a", IF upper THEN "S" ELSE "s", "k", "s", Digits[i], " ">>

\* kb.search: n questions; with dups every second one repeats its predecessor
\* in another case
Retrieved(n, dups) ==
    [i \in 1..n |-> IF dups /\ i % 2 = 0 THEN BankQuestion(i - 1, TRUE)
                    ELSE BankQuestion(i, FALSE)]

\* the chat model's answer: k lines; a messy answer opens with a short remark,
\* repeats its first line in another case and repeats the first bank question
ChatLines(k, messy) ==
    LET clean == [i \in 1..k |-> TailoredLine(i, FALSE)]
    IN  IF messy
        THEN Take(<<<<"o", "k", ":">>, TailoredLine(1, FALSE), TailoredLine(1, TRUE),
                    <<"-">> \o BankQuestion(1, FALSE)>> \o clean, k)
        ELSE clean

KbDown == [kb_ok |-> FALSE, retrieved |-> <<>>, llm_ok |-> FALSE, lines |-> <<>>]
EnvOf(retr, llm_ok, lines) ==
    [kb_ok |-> TRUE, retrieved |-> retr, llm_ok |-> llm_ok, lines |-> lines]

FewLines == 3

\* environments of a pipeline run
PipelineEnvs ==
    {KbDown}
    \cup {EnvOf(Retrieved(n, dups), FALSE, <<>>) : n \in 1..MaxRetrieved, dups \in BOOLEAN}
    \cup {EnvOf(Retrieved(n, FALSE), TRUE, ChatLines(k, TRUE)) :
             n \in 1..MaxRetrieved, k \in {0, FewLines}}

IdleBreaker == [threshold |-> 3, cooldown_s |-> 30, state |-> "CLOSED",
                failures |-> 0, open_until |-> 0]
NoCall == [flip |-> FALSE, use_real |-> FALSE, has_fn |-> FALSE,
           ics_written |-> FALSE, status |-> "none", inserts |-> 0]

\* no caller, no invite file
ThreadsIdle ==
    /\ thr = <<>>
    /\ ics_file = NoIcs

\* no question bank under construction, no CSV, no cache files
CacheIdle ==
    /\ csv = NoCsv
    /\ cache_vec = NoVec
    /\ cache_meta = NoMeta
    /\ bank = <<>>

CallIdle ==
    /\ breaker = IdleBreaker
    /\ now = 0
    /\ call = NoCall
    /\ consec = 0
    /\ ThreadsIdle
    /\ CacheIdle

\* OrchestratorState(jd=..., candidates=...) with the field defaults of state.py
FreshState(must, nice, cands, policy) ==
    /\ jd = [title |-> DefaultTitle, must_haves |-> must, nice_haves |-> nice]
    /\ candidates = cands
    /\ shortlisted = <<>>
    /\ questions = <<>>
    /\ policy_violation = policy
    /\ needs_disambiguation = FALSE
    /\ schema_ok = FALSE
    /\ violations = <<>>
    /\ trace = <<>>
    /\ main = MainIdle

----------------------------------------------------------------------------
(* The pipeline: build_graph() invoked on a fresh state *)

Init ==
    /\ pc = "Screener"
    /\ \E must \in MustHaveInputs, cands \in PoolInputs, policy \in BOOLEAN :
          FreshState(must, <<sk_c>>, cands, policy)
    /\ cfg = DefaultCfg
    /\ env \in PipelineEnvs
    /\ CallIdle

Next ==
    \/ Screener
    \/ Analyst
    \/ QuestionWriter
    \/ Reviewer

Spec == Init /\ [][Next]_vars

----------------------------------------------------------------------------
(* The Analyst on its own: Screener and Analyst over every small pool and    *)
(* every small choice of top_n_first and min_score_first                    *)

MaxPool == 4
MaxTopN == 4

\* scores against must-haves a, b and nice-to-have c: 13000, 7000, 3500, 2000
AnalystKinds ==
    {NewCandidate(<<"w">>, 5, <<sk_a, sk_b, sk_c>>),
     NewCandidate(<<"x">>, 0, <<sk_a, sk_b>>),
     NewCandidate(<<"y">>, 0, <<sk_a>>),
     NewCandidate(<<"z">>, 2, <<>>)}

MinScoreInputs == {0, DefaultMinScore, 2 * DefaultMinScore, HighMinScore}

InitAnalyst ==
    /\ pc = "Screener"
    /\ \E cands \in SeqsOf(AnalystKinds, 0, MaxPool) :
          FreshState(<<sk_a, sk_b>>, <<sk_c>>, cands, FALSE)
    /\ cfg \in [top_n_first : 0..MaxTopN, min_score_first : MinScoreInputs]
    /\ env = KbDown
    /\ CallIdle

NextAnalyst ==
    \/ Screener
    \/ Analyst

SpecAnalyst == InitAnalyst /\ [][NextAnalyst]_vars

----------------------------------------------------------------------------
(* The pipeline with the Analyst node given other keyword arguments: every   *)
(* small pool, every small positive top_n_first, several thresholds         *)

ConfiguredEnvs ==
    {KbDown,
     EnvOf(Retrieved(MidMinQuestions - 1, FALSE), FALSE, <<>>),
     EnvOf(Retrieved(TargetMin + 1, TRUE), TRUE, ChatLines(FewLines, TRUE))}

InitConfigured ==
    /\ pc = "Screener"
    /\ \E cands \in SeqsOf(AnalystKinds, 0, MaxCands), policy \in BOOLEAN :
          FreshState(<<sk_a, sk_b>>, <<sk_c>>, cands, policy)
    /\ cfg \in [top_n_first : 1..MaxTopN, min_score_first : MinScoreInputs]
               \cup {DefaultCfg}
    /\ env \in ConfiguredEnvs
    /\ CallIdle

SpecConfigured == InitConfigured /\ [][Next]_vars

----------------------------------------------------------------------------
(* main: the pipeline on what the parsers hand over (at least one candidate, *)
(* every name non-blank), then the rest of main                             *)

MaxScheduleN == 2   \* SCHEDULE_TOP_N (2 when the environment does not set it)

\* parse_resumes_from_dir: names are stripped and never blank; main returns
\* before the pipeline when no resume could be parsed
MainPools ==
    {p \in PoolInputs :
        /\ p # <<>>
        /\ \A i \in 1..Len(p) : StrStrip(p[i].name) # <<>>}

InitMain ==
    /\ pc = "Screener"
    /\ \E must \in MustHaveInputs, cands \in MainPools, policy \in BOOLEAN :
          FreshState(must, <<sk_c>>, cands, policy)
    /\ cfg = DefaultCfg
    /\ env \in PipelineEnvs
    /\ CallIdle

NextMain ==
    \/ Next
    \/ MainGraphFails
    \/ \E schedule_top_n \in 0..MaxScheduleN, use_real_calendar \in BOOLEAN,
          gcal_ok \in BOOLEAN :
          MainAfterGraph(schedule_top_n, use_real_calendar, gcal_ok)

SpecMain == InitMain /\ [][NextMain]_vars

----------------------------------------------------------------------------
(* The end-to-end scenario: must-haves Python and SQL, five candidates of   *)
(* which the first two have both skills and the other three lack at least   *)
(* one                                                                      *)

sk_python == <<"P", "y", "t", "h", "o", "n">>
sk_sql    == <<"S", "Q", "L">>

BothSkills == NewCandidate(<<"x">>, 3, <<sk_python, sk_sql>>)

\* scores 0, 2000, 3500 and 4500 against the two must-haves
LackingKinds ==
    {NewCandidate(<<"y">>, 0, <<>>),
     NewCandidate(<<"y">>, 2, <<sk_c>>),
     NewCandidate(<<"z">>, 0, <<sk_python>>),
     NewCandidate(<<"z">>, 1, <<sk_sql>>)}

ScenarioCandidates == 5

ScenarioPools ==
    {<<BothSkills, BothSkills>> \o rest :
        rest \in [1..(ScenarioCandidates - 2) -> LackingKinds]}

ScenarioEnvs ==
    {EnvOf(Retrieved(FewLines, FALSE), FALSE, <<>>),
     EnvOf(Retrieved(TargetMin + 1, FALSE), TRUE, ChatLines(FewLines, TRUE))}

InitScenario ==
    /\ pc = "Screener"
    /\ \E cands \in ScenarioPools :
          FreshState(<<sk_python, sk_sql>>, <<>>, cands, FALSE)
    /\ cfg = DefaultCfg
    /\ env \in ScenarioEnvs
    /\ CallIdle

SpecScenario == InitScenario /\ [][Next]_vars

----------------------------------------------------------------------------
(* The QuestionWriter over many answers of the question bank and of the chat *)
(* model, inside a pipeline run on one job and one candidate                *)

MaxLines == 14   \* lines in the chat model's answer

WriterEnvs ==
    {EnvOf(Retrieved(n, dups), TRUE, ChatLines(k, messy)) :
        n \in 0..MaxRetrieved, dups \in BOOLEAN, k \in 0..MaxLines, messy \in BOOLEAN}

InitWriter ==
    /\ pc = "Screener"
    /\ FreshState(Take(PlainSkills, MaxMust), <<sk_c>>, <<Strong>>, FALSE)
    /\ cfg = DefaultCfg
    /\ env \in WriterEnvs
    /\ CallIdle

SpecWriter == InitWriter /\ [][Next]_vars

----------------------------------------------------------------------------
(* The Screener over every short must-have list spelt with blanks, padding   *)
(* and case variants, inside a pipeline run on one candidate                *)

sk_Bpad == <<"B", " ">>

MustSpellings == {sk_a, sk_A, sk_blank, sk_b, sk_Bpad}

InitScreener ==
    /\ pc = "Screener"
    /\ \E must \in SeqsOf(MustSpellings, 1, MaxMust) :
          FreshState(must, <<sk_c>>, <<Strong>>, FALSE)
    /\ cfg = DefaultCfg
    /\ env \in ScenarioEnvs
    /\ CallIdle

SpecScreener == InitScreener /\ [][Next]_vars

----------------------------------------------------------------------------
(* The pipeline with analyst given a top_n_first that can be 0, on pools     *)
(* small enough not to widen: the Reviewer can meet an empty shortlist       *)

MaxRepairPool == 2

\* a question bank whose first answer is, in lower case, the question the
\* Reviewer derives from the must-have "a"
RepairEnvs ==
    ConfiguredEnvs
    \cup {EnvOf(<<StrLower(Template(sk_a))>> \o Retrieved(FewLines - 1, FALSE), FALSE, <<>>)}

InitRepair ==
    /\ pc = "Screener"
    /\ \E cands \in SeqsOf(AnalystKinds, 0, MaxRepairPool), policy \in BOOLEAN :
          FreshState(<<sk_a, sk_b>>, <<sk_c>>, cands, policy)
    /\ cfg \in [top_n_first : 0..MaxRepairPool, min_score_first : MinScoreInputs]
    /\ env \in RepairEnvs
    /\ CallIdle

SpecRepair == InitRepair /\ [][Next]_vars

----------------------------------------------------------------------------
(* The scoring engine on its own: the scoring loop of _shortlist applied,    *)
(* and applied again, to two candidates                                     *)

MaxScoreMust == 2
MaxPasses == 2

ScoreMustInputs == SeqsOf({sk_A, sk_b, sk_sym}, 1, MaxScoreMust)
ScoreNiceInputs == {<<>>, <<sk_c, sk_bsep>>}
ScoreSkillInputs ==
    {<<>>, <<sk_a>>, <<sk_b>>, <<sk_c>>, <<sk_a, sk_b>>, <<sk_A, sk_c>>,
     <<sk_b, sk_c, sk_b>>, <<sk_a, sk_b, sk_c>>}
YearsInputs == {-1, 2, 5}
ScoreCandidates ==
    {NewCandidate(<<"x">>, y, sk) : y \in YearsInputs, sk \in ScoreSkillInputs}

InitScore ==
    /\ pc = "Score"
    /\ \E must \in ScoreMustInputs, nice \in ScoreNiceInputs,
          a \in ScoreCandidates, b \in ScoreCandidates :
          FreshState(must, nice, <<a, b>>, FALSE)
    /\ cfg = DefaultCfg
    /\ env = KbDown
    /\ CallIdle

\* One run of the scoring loop (agents.py 40-43)
ScorePass ==
    /\ pc = "Score"
    /\ Len(trace) < MaxPasses
    /\ candidates' = ScoreAll(jd, candidates)
    /\ Ran("_shortlist")
    /\ UNCHANGED <<pc, jd, shortlisted, questions, policy_violation,
                   needs_disambiguation, schema_ok, violations, cfg, env>>
    /\ UNCHANGED <<main, callVars, threadVars, cacheVars>>

SpecScore == InitScore /\ [][ScorePass]_vars

----------------------------------------------------------------------------
(* The calendar calls of one process, one at a time                         *)

MaxThreshold == 3
MaxCooldown == 2
MaxTime == 6
MaxCallTime == 1
MaxFails == 3

InitBreaker ==
    /\ pc = "Done"
    /\ FreshState(<<sk_a>>, <<>>, <<>>, FALSE)
    /\ cfg = DefaultCfg
    /\ env = KbDown
    /\ \E th \in 1..MaxThreshold, cd \in 1..MaxCooldown :
          breaker = [threshold |-> th, cooldown_s |-> cd, state |-> "CLOSED",
                     failures |-> 0, open_until |-> 0]
    /\ now = 0
    /\ call = NoCall
    /\ consec = 0
    /\ ThreadsIdle
    /\ CacheIdle

NextBreaker ==
    \/ \E use_real \in BOOLEAN, has_fn \in BOOLEAN, fails \in 0..MaxFails,
          d \in 0..MaxCallTime :
          /\ now + d <= MaxTime
          /\ CreateEvent(use_real, has_fn, fails, d)
    \/ /\ now < MaxTime
       /\ Tick

SpecBreaker == InitBreaker /\ [][NextBreaker]_vars

----------------------------------------------------------------------------
(* The calendar calls step by step: one caller, and several callers sharing  *)
(* the breaker                                                              *)

MaxClock == 9
MaxThreads == 2
MaxRaceThreshold == 2
MaxRaceClock == 5

\* 10:00 naive, 10:00 at UTC+5, 23:50 at UTC-1 (the next day in UTC)
WhenInputs == {[t |-> 600, aware |-> FALSE, off |-> 0],
               [t |-> 600, aware |-> TRUE, off |-> 300],
               [t |-> 1430, aware |-> TRUE, off |-> -60]}
DurationInputs == {30, 45}

InitThreads(n, thresholds, cooldowns) ==
    /\ pc = "Done"
    /\ FreshState(<<sk_a>>, <<>>, <<>>, FALSE)
    /\ cfg = DefaultCfg
    /\ env = KbDown
    /\ \E th \in thresholds, cd \in cooldowns :
          breaker = [threshold |-> th, cooldown_s |-> cd, state |-> "CLOSED",
                     failures |-> 0, open_until |-> 0]
    /\ now = 0
    /\ call = NoCall
    /\ consec = 0
    /\ thr = [t \in 1..n |-> IdleThread]
    /\ ics_file = NoIcs
    /\ CacheIdle

InitCall == InitThreads(1, 1..MaxThreshold, 1..MaxCooldown)

\* the steps of a call that is under way
CallStep(t) ==
    \/ Allow(t)
    \/ Insert(t)
    \/ RecordSuccess(t)
    \/ RecordFailure(t)
    \/ StoreFailures(t)
    \/ TripAndReturn(t)

NextCall ==
    \/ \E use_real \in BOOLEAN, has_fn \in BOOLEAN, valid \in BOOLEAN,
          w \in WhenInputs, d \in DurationInputs :
          CallBegin(1, use_real, has_fn, 0, valid, w, d)
    \/ \E fails \in 1..MaxFails, w \in WhenInputs, d \in DurationInputs :
          CallBegin(1, TRUE, TRUE, fails, TRUE, w, d)
    \/ CallStep(1)
    \/ /\ now < MaxClock
       /\ Tick

SpecCall == InitCall /\ [][NextCall]_vars

InitRace == InitThreads(MaxThreads, 1..MaxRaceThreshold, {1})

NextRace ==
    \/ \E t \in Threads, fails \in {0, RetryAttempts} :
          CallBegin(t, TRUE, TRUE, fails, TRUE, [t |-> 600, aware |-> FALSE, off |-> 0], 30)
    \/ \E t \in Threads : CallStep(t)
    \/ /\ now < MaxRaceClock
       /\ Tick

SpecRace == InitRace /\ [][NextRace]_vars

----------------------------------------------------------------------------
(* The question bank constructed by processes that share the cache files    *)

MaxBanks == 2
MaxMtime == 2

qa_role == <<"r">>
Row(question) == [role |-> qa_role, question |-> question]

\* CSV contents: two questions; the same two with padding and a blank row; two
\* other questions; one question holding a line break, whose corpus joins to
\* the text of the first; no usable row
RowsAB      == <<Row(<<"a">>), Row(<<"b">>)>>
RowsABPad   == <<Row(<<" ", "a">>), Row(<<" ">>), Row(<<"b", " ">>)>>
RowsAC      == <<Row(<<"a">>), Row(<<"c">>)>>
RowsOneLine == <<Row(<<"a", "\n", "r", " ", ":", ":", " ", "b">>)>>
RowsBlank   == <<Row(<<" ">>)>>
CsvInputs == {RowsAB, RowsABPad, RowsAC, RowsOneLine, RowsBlank}

\* cache files found at start: none; the cache built from the first CSV; the
\* same with its array file deleted; caches written under another embedding
\* model or dimension; an unreadable meta file
BuiltCache == [vec  |-> VecOf(embed_texts(CorpusOf(_load_csv(RowsAB)))),
               meta |-> MetaOf(CorpusOf(_load_csv(RowsAB)),
                               embed_texts(CorpusOf(_load_csv(RowsAB))), 0)]
CacheInputs ==
    {[vec |-> NoVec, meta |-> NoMeta],
     BuiltCache,
     [BuiltCache EXCEPT !.vec = NoVec],
     [BuiltCache EXCEPT !.meta.model = "text-embedding-ada-002"],
     [BuiltCache EXCEPT !.meta.dim = 3072, !.vec.dim = 3072],
     [BuiltCache EXCEPT !.meta = [exists |-> TRUE, readable |-> FALSE]]}

InitCache ==
    /\ pc = "Done"
    /\ FreshState(<<sk_a>>, <<>>, <<>>, FALSE)
    /\ cfg = DefaultCfg
    /\ env = KbDown
    /\ breaker = IdleBreaker
    /\ now = 0
    /\ call = NoCall
    /\ consec = 0
    /\ ThreadsIdle
    /\ csv \in {NoCsv} \cup {[exists |-> TRUE, rows |-> rows, mtime |-> 0] :
                              rows \in {RowsAB, RowsAC}}
    /\ \E c \in CacheInputs : cache_vec = c.vec /\ cache_meta = c.meta
    /\ bank = [p \in 1..MaxBanks |-> IdleBank]

NextCache ==
    \/ \E p \in DOMAIN bank : Construct(p)
    \/ \E p \in DOMAIN bank : CheckCache(p)
    \/ \E p \in DOMAIN bank : LoadVec(p)
    \/ \E p \in DOMAIN bank, ok \in BOOLEAN : Embed(p, ok)
    \/ \E p \in DOMAIN bank : SaveBegin(p)
    \/ \E p \in DOMAIN bank, torn \in BOOLEAN : SaveEnd(p, torn)
    \/ \E p \in DOMAIN bank : MetaBegin(p)
    \/ \E p \in DOMAIN bank : MetaEnd(p)
    \/ \E rows \in CsvInputs :
          /\ csv.mtime < MaxMtime
          /\ WriteCsv(rows)

SpecCache == InitCache /\ [][NextCache]_vars

----------------------------------------------------------------------------
(* Runs of main one after another from one working directory, the CSV left   *)
(* as it is: each run constructs the question bank once (agents.py 98) and   *)
(* then goes through the rest of main                                       *)

MaxRuns == 3

\* lines 49-156 of a later process: main starts again
MainBegin ==
    /\ main.status # "running"
    /\ main.run < Len(bank)
    /\ main' = [MainIdle EXCEPT !.run = main.run + 1]
    /\ UNCHANGED <<pc, jd, candidates, shortlisted, questions, policy_violation,
                   needs_disambiguation, schema_ok, violations, cfg, env, trace>>
    /\ UNCHANGED <<callVars, threadVars, cacheVars>>

\* the rest of main once the run's question bank is built or has raised, the
\* pipeline in between left out: a bank that raised makes app.invoke raise
\* (lines 179-184); otherwise lines 188-289 run for n_top top candidates.  Line
\* 328, file_manager.move_cache_files(), lies behind the exceptions of lines 234
\* and 289 and is not reached: the cache files stay where they are.
MainRest(n_top, use_real_calendar, gcal_ok) ==
    /\ main.status = "running"
    /\ bank[main.run].pc \in {"ready", "failed"}
    /\ main' = IF bank[main.run].pc = "failed"
               THEN [main EXCEPT !.status = "returned 1"]
               ELSE AfterGraph(main, n_top, use_real_calendar, gcal_ok)
    /\ UNCHANGED <<pc, jd, candidates, shortlisted, questions, policy_violation,
                   needs_disambiguation, schema_ok, violations, cfg, env, trace>>
    /\ UNCHANGED <<callVars, threadVars, cacheVars>>

InitRuns ==
    /\ pc = "Done"
    /\ FreshState(<<sk_a>>, <<>>, <<>>, FALSE)
    /\ cfg = DefaultCfg
    /\ env = KbDown
    /\ breaker = IdleBreaker
    /\ now = 0
    /\ call = NoCall
    /\ consec = 0
    /\ ThreadsIdle
    /\ csv \in {[exists |-> TRUE, rows |-> rows, mtime |-> 0] : rows \in {RowsAB, RowsAC}}
    /\ \E c \in CacheInputs : cache_vec = c.vec /\ cache_meta = c.meta
    /\ bank = [p \in 1..MaxRuns |-> IdleBank]

NextRuns ==
    \/ MainBegin
    \/ /\ main.status = "running"
       /\ Construct(main.run)
    \/ \E p \in DOMAIN bank : CheckCache(p)
    \/ \E p \in DOMAIN bank : LoadVec(p)
    \/ \E p \in DOMAIN bank, ok \in BOOLEAN : Embed(p, ok)
    \/ \E p \in DOMAIN bank : SaveBegin(p)
    \/ \E p \in DOMAIN bank : SaveEnd(p, FALSE)
    \/ \E p \in DOMAIN bank : MetaBegin(p)
    \/ \E p \in DOMAIN bank : MetaEnd(p)
    \/ \E n_top \in 0..MaxScheduleN, use_real_calendar \in BOOLEAN, gcal_ok \in BOOLEAN :
          MainRest(n_top, use_real_calendar, gcal_ok)

SpecRuns == InitRuns /\ [][NextRuns]_vars

----------------------------------------------------------------------------
(* Claims *)

Nodes == {"Screener", "Analyst", "QuestionWriter", "Reviewer"}
HasRun(node) == node \in Range(trace)
IsPrefix(s, t) == Len(s) <= Len(t) /\ s = SubSeq(t, 1, Len(s))

\* C1: when the QuestionWriter node completes, the next node is Reviewer if and
\* only if schema_ok is false or policy_violation is true at that moment, and
\* otherwise the run is Done without Reviewer having run.
C1_RouteAfterQuestions ==
    [][(pc = "QuestionWriter" /\ pc' \notin {"QuestionWriter", "Failed"})
          => /\ pc' \in {"Reviewer", "Done"}
             /\ (pc' = "Reviewer") = (~schema_ok' \/ policy_violation')
             /\ (pc' = "Done") = (schema_ok' /\ ~policy_violation')
             /\ ~("Reviewer" \in Range(trace'))]_vars

\* C1 witness: Reviewer is entered on the policy flag alone
C1_Witness ==
    /\ pc = "Reviewer"
    /\ trace = <<"Screener", "Analyst", "QuestionWriter">>
    /\ schema_ok
    /\ policy_violation

\* C2: every run executes Screener, Analyst, QuestionWriter once each in that
\* order, then Reviewer at most once, then is Done: the nodes run so far are a
\* prefix of that order, and a run that has left the nodes is Done after the
\* three or four of them.
C2_StagesInOrder ==
    /\ IsPrefix(trace, <<"Screener", "Analyst", "QuestionWriter", "Reviewer">>)
    /\ pc \notin Nodes
          => /\ pc = "Done"
             /\ trace \in {<<"Screener", "Analyst", "QuestionWriter">>,
                           <<"Screener", "Analyst", "QuestionWriter", "Reviewer">>}

\* C3: whenever Reviewer has run, the question list holds 8 to 12 questions.
C3_RepairedQuestionCount ==
    HasRun("Reviewer") => Len(questions) >= ReviewMin /\ Len(questions) <= ReviewMax

\* the selection _shortlist makes with top_n_first and min_score_first
InitialSelection == _shortlist(jd, candidates, cfg.top_n_first, cfg.min_score_first).list

\* C4: when the pool has at least 3 candidates and the initial selection has
\* fewer than 3 members, the shortlist the Analyst leaves has at least 3.
C4_WideningYieldsThree ==
    (HasRun("Analyst") /\ Len(candidates) >= 3 /\ Len(InitialSelection) < 3)
        => Len(shortlisted) >= 3

\* C5: with a non-empty candidate list, a run is never Done with an empty
\* shortlist.
C5_NoEmptyShortlistAtDone ==
    (pc = "Done" /\ candidates # <<>>) => shortlisted # <<>>

\* C5 witness: Done without Reviewer, the one shortlisted candidate taken by the
\* top-N fallback because neither candidate reaches the threshold
C5_Witness ==
    /\ pc = "Done"
    /\ ~HasRun("Reviewer")
    /\ Len(candidates) = 2
    /\ \A i \in 1..Len(candidates) : candidates[i].score < cfg.min_score_first
    /\ Len(shortlisted) = 1

PassingCount == Cardinality({i \in 1..Len(candidates) :
                                candidates[i].score >= cfg.min_score_first})

\* the shortlist has min(N, passing) members, all at or above T, in descending
\* score order with equal scores in input order
ShortlistAsSpecified ==
    /\ Len(shortlisted) = Min(cfg.top_n_first, PassingCount)
    /\ \A k \in 1..Len(shortlisted) :
          /\ shortlisted[k] \in 1..Len(candidates)
          /\ candidates[shortlisted[k]].score >= cfg.min_score_first
    /\ \A k, l \in 1..Len(shortlisted) :
          k < l => \/ candidates[shortlisted[k]].score > candidates[shortlisted[l]].score
                   \/ /\ candidates[shortlisted[k]].score = candidates[shortlisted[l]].score
                      /\ shortlisted[k] < shortlisted[l]

\* C6 as stated: with at least 3 candidates at or above T, for any target count N
C6_Original ==
    (HasRun("Analyst") /\ PassingCount >= 3) => ShortlistAsSpecified

\* C6 (amended): with at least 3 candidates at or above T and a target count
\* N >= 3, the Analyst's shortlist has min(N, passing) members, all at or above
\* T, in descending score order with equal scores in input order.
C6_ShortlistOfPassing ==
    (HasRun("Analyst") /\ PassingCount >= 3 /\ cfg.top_n_first >= 3)
        => ShortlistAsSpecified

\* C6 witness: four pass, three are kept, two of them tie
C6_Witness ==
    /\ HasRun("Analyst")
    /\ PassingCount = 4
    /\ cfg.top_n_first = 3
    /\ Len(shortlisted) = 3
    /\ candidates[shortlisted[1]].score = candidates[shortlisted[2]].score
    /\ cfg.min_score_first > 0

\* the canonicalized must-haves, nice-to-haves and skills as sets
CanonSet(items) == Range(_canonize(items))
MatchCount(required, c) == Cardinality(CanonSet(required) \cap CanonSet(c.skills))
HasEveryMustHave(c) == CanonSet(jd.must_haves) \subseteq CanonSet(c.skills)
Scored == HasRun("_shortlist")

\* C7 as stated: a candidate B lacking a must-have never scores strictly above a
\* candidate A that has them all
C7_Original ==
    Scored => \A a, b \in 1..Len(candidates) :
                 (HasEveryMustHave(candidates[a]) /\ ~HasEveryMustHave(candidates[b]))
                     => candidates[b].score <= candidates[a].score

\* C7 (amended): a candidate B lacking a must-have never scores strictly above a
\* candidate A that has them all, provided B matches none of the must-haves
\* (whatever the years of experience) or B's nice-to-have matches and years of
\* experience do not exceed A's.
C7_MustHavesDominate ==
    Scored => \A a, b \in 1..Len(candidates) :
                 (/\ HasEveryMustHave(candidates[a])
                  /\ ~HasEveryMustHave(candidates[b])
                  /\ \/ MatchCount(jd.must_haves, candidates[b]) = 0
                     \/ /\ MatchCount(jd.nice_haves, candidates[b])
                           <= MatchCount(jd.nice_haves, candidates[a])
                        /\ candidates[b].years_exp <= candidates[a].years_exp)
                     => candidates[b].score <= candidates[a].score

\* C7 witness: A has both must-haves and nothing else, B has none of them but
\* the nice-to-have and the full experience bonus
C7_Witness ==
    /\ Scored
    /\ Cardinality(CanonSet(jd.must_haves)) = 2
    /\ HasEveryMustHave(candidates[1])
    /\ candidates[1].years_exp < 0
    /\ MatchCount(jd.must_haves, candidates[2]) = 0
    /\ MatchCount(jd.nice_haves, candidates[2]) = 1
    /\ candidates[2].years_exp = 5
    /\ candidates[2].score = 4500
    /\ candidates[1].score = 7000

\* |R \cap S| and max(1, |R|) of the canonicalized sets
RatioNum(required, c) == MatchCount(required, c)
RatioDen(required) == Max(1, Cardinality(CanonSet(required)))

\* s is x rounded to 4 decimals, x = 0.7 m + 0.3 n + min(max(years, 0)/10, 0.3):
\* with x = num/den in ten-thousandths, s is an integer within half a unit of it
IsScoreOf(s, c) ==
    LET md  == RatioDen(jd.must_haves)
        nd  == RatioDen(jd.nice_haves)
        yrs == IF c.years_exp > 0 THEN c.years_exp ELSE 0
        bonus == IF yrs >= 3 THEN 3000 ELSE 1000 * yrs
        num == 7000 * RatioNum(jd.must_haves, c) * nd
                 + 3000 * RatioNum(jd.nice_haves, c) * md
                 + bonus * md * nd
        den == md * nd
    IN  /\ 2 * (num - s * den) <= den
        /\ 2 * (s * den - num) <= den

\* C8: every score assigned equals 0.7 m + 0.3 n + min(max(years, 0)/10, 0.3)
\* rounded to 4 decimals, m and n the overlap ratios of the canonicalized sets;
\* scoring the candidates again leaves every score as it is.
C8_ScoreFormula ==
    /\ [](Scored => \A i \in 1..Len(candidates) :
                       IsScoreOf(candidates[i].score, candidates[i]))
    /\ [][Scored => candidates' = candidates]_vars

\* C8 witness: after the second pass, a candidate with one of two must-haves, one
\* of two nice-to-haves and 2 years holds 3500 + 1500 + 2000
C8_Witness ==
    /\ Len(trace) = 2
    /\ Scored
    /\ Cardinality(CanonSet(jd.must_haves)) = 2
    /\ MatchCount(jd.must_haves, candidates[1]) = 1
    /\ MatchCount(jd.nice_haves, candidates[1]) = 1
    /\ candidates[1].years_exp = 2
    /\ candidates[1].score = 7000

\* C9: from Closed with zero failures the breaker is Open exactly when
\* `threshold` or more failures have been recorded since the last success; a
\* recorded success leaves it Closed with zero failures, and while it is Closed
\* the failure count is the number of failures since the last success.
C9_OpensAtThreshold ==
    /\ (breaker.state = "OPEN") = (consec >= breaker.threshold)
    /\ (breaker.state = "CLOSED") = (consec < breaker.threshold)
    /\ breaker.state = "CLOSED" => breaker.failures = consec
    /\ call.status = "inserted" => breaker.state = "CLOSED" /\ breaker.failures = 0

\* C9 witness: the breaker has just opened on its third consecutive failure
C9_Witness ==
    /\ breaker.threshold = 3
    /\ breaker.state = "OPEN"
    /\ consec = 3
    /\ breaker.failures = 3
    /\ call.status = "fallback_ics"

\* C10: a call made while the breaker is Open and the cooldown has not expired
\* invokes no insert, returns breaker_open and leaves the breaker unchanged; a
\* call with the calendar disabled or without an insert function returns
\* skipped_disabled, invokes no insert and leaves the breaker unchanged.
C10_SkippedCalls ==
    [][call'.flip # call.flip
          => /\ (/\ call'.use_real /\ call'.has_fn
                 /\ breaker.state = "OPEN" /\ now < breaker.open_until)
                    => /\ call'.status = "breaker_open"
                       /\ call'.inserts = 0
                       /\ breaker' = breaker
             /\ (~call'.use_real \/ ~call'.has_fn)
                    => /\ call'.status = "skipped_disabled"
                       /\ call'.inserts = 0
                       /\ breaker' = breaker]_vars

\* C10 witness: a call refused by the open breaker before its cooldown expired
C10_Witness ==
    /\ call.status = "breaker_open"
    /\ call.inserts = 0
    /\ breaker.state = "OPEN"
    /\ now < breaker.open_until


\* a caller between its admission by allow() and the return of its record call
InFlight(t) == thr[t].pc \in {"insert", "record_success", "record_failure", "store", "trip"}

\* the caller's allow() returns in this step
AllowReturns(t) == thr[t].pc = "allow" /\ thr'[t].pc # "allow"
Admitted(t) == thr'[t].pc = "insert"
Refused(t) == thr'[t].pc = "idle" /\ thr'[t].status = "breaker_open"

\* C11: the first allow() after the cooldown has elapsed moves Open to HalfOpen
\* and admits its caller; while the breaker is HalfOpen and the admitted
\* attempt has not yet recorded its outcome, every other allow() is refused.
C11_SingleProbe ==
    [][\A t \in Threads :
          AllowReturns(t)
             => /\ (breaker.state = "OPEN" /\ now >= breaker.open_until)
                      => (breaker'.state = "HALF" /\ Admitted(t))
                /\ (/\ breaker.state = "HALF"
                    /\ \E u \in Threads \ {t} : thr[u].probe /\ InFlight(u))
                      => Refused(t)]_vars


\* C11 counterpart that the code does satisfy: the first allow() after expiry
\* moves Open to HalfOpen and admits the caller
C11_FirstProbeAdmitted ==
    [][\A t \in Threads :
          (AllowReturns(t) /\ breaker.state = "OPEN" /\ now >= breaker.open_until)
             => (breaker'.state = "HALF" /\ Admitted(t))]_vars

\* the caller's record_success / record_failure call is entered in this step
RecordsSuccess(t) == thr[t].pc = "record_success" /\ thr'[t].pc # "record_success"
RecordsFailure(t) == thr[t].pc = "record_failure" /\ thr'[t].pc # "record_failure"

\* C12: a success recorded while HalfOpen leaves the breaker Closed with zero
\* failures; a failure recorded while HalfOpen leaves it Open at once with
\* resume time now + cooldown; and until that resume time every allow() is
\* refused and leaves the breaker as it is.
C12_HalfOpenOutcome ==
    /\ [][\A t \in Threads :
             /\ (RecordsSuccess(t) /\ breaker.state = "HALF")
                   => (breaker'.state = "CLOSED" /\ breaker'.failures = 0)
             /\ (RecordsFailure(t) /\ breaker.state = "HALF")
                   => /\ thr'[t].pc = "idle"
                      /\ breaker'.state = "OPEN"
                      /\ breaker'.open_until = now + breaker.cooldown_s
             /\ (AllowReturns(t) /\ breaker.state = "OPEN" /\ now < breaker.open_until)
                   => (Refused(t) /\ breaker' = breaker)]_vars
    /\ [](\A t \in Threads :
             (thr[t].pc = "idle" /\ thr[t].status = "fallback_ics" /\ thr[t].probe)
                => /\ breaker.state = "OPEN"
                   /\ breaker.open_until = thr[t].t_rec + breaker.cooldown_s)

\* C12 witness: the HalfOpen attempt has just failed, with a cooldown of 2 and
\* a threshold of 1: the breaker is Open again until now + 2
C12_Witness ==
    /\ thr[1].pc = "idle"
    /\ thr[1].status = "fallback_ics"
    /\ thr[1].probe
    /\ thr[1].t_rec = now
    /\ breaker.cooldown_s = 2
    /\ breaker.threshold = 1
    /\ breaker.state = "OPEN"
    /\ breaker.open_until = now + 2
    /\ breaker.failures = 1


Outcomes == {"inserted", "fallback_ics", "breaker_open", "skipped_disabled"}
Returned(t) == thr[t].pc = "idle" /\ thr[t].status \in Outcomes

\* C13: a caller that is about to invoke, or has invoked, the insert function
\* has written its ICS file before; and every call that returns inserted,
\* fallback_ics, breaker_open or skipped_disabled has written an ICS file and
\* returns its path.
C13_IcsFirst ==
    \A t \in Threads :
       /\ (InFlight(t) \/ thr[t].inserts > 0)
             => (thr[t].ics.written /\ ics_file.written)
       /\ Returned(t)
             => (thr[t].ics.written /\ thr[t].path /\ ics_file.written)

\* C13 witness: a call has returned fallback_ics after three invocations of the
\* insert function, its ICS file written
C13_Witness ==
    /\ Returned(1)
    /\ thr[1].status = "fallback_ics"
    /\ thr[1].inserts = 3
    /\ thr[1].ics.written
    /\ ics_file = thr[1].ics

\* the instant a DTSTART / DTEND value denotes, and the requested start in UTC
IcsInstant(v) == v.date * DayMinutes + v.hm
RequestedStartUtc(w) == IF w.aware THEN w.t - w.off ELSE w.t
AlwaysThrows(t) == thr[t].fails >= RetryAttempts

C15_BoundedRetry ==
    \A t \in Threads :
       /\ thr[t].inserts <= RetryAttempts
       /\ thr[t].inserts <= thr[t].fails + 1
       /\ (Returned(t) /\ thr[t].status \in {"inserted", "fallback_ics"})
             => /\ (thr[t].status = "inserted") = (thr[t].fails < 3)
                /\ thr[t].status = "inserted"
                      => /\ thr[t].inserts = thr[t].fails + 1
                         /\ breaker.state = "CLOSED"
                         /\ breaker.failures = 0
                /\ thr[t].status = "fallback_ics"
                      => /\ thr[t].inserts = 3
                         /\ breaker.failures >= 1
                         /\ consec >= 1

\* C15 witness: the insert function raised twice and returned on the third
\* invocation, after an earlier failed call
C15_Witness ==
    /\ Returned(1)
    /\ thr[1].status = "inserted"
    /\ thr[1].fails = 2
    /\ thr[1].inserts = 3
    /\ breaker.threshold = 2
    /\ breaker.state = "CLOSED"
    /\ breaker.failures = 0
    /\ thr[1].t_rec >= 6


\* the positions of the retrieved questions that repeat no earlier one, case
\* ignored, and the k-th of them
FirstOccurrences(retr) ==
    {i \in 1..Len(retr) : \A j \in 1..(i - 1) : StrLower(retr[j]) # StrLower(retr[i])}
KthOf(S, k) == CHOOSE i \in S : Cardinality({j \in S : j < i}) = k - 1

\* QuestionWriter was the last node to run, with the question bank answering
\* and the chat completion raising
WroteByFallback ==
    /\ trace = <<"Screener", "Analyst", "QuestionWriter">>
    /\ env.kb_ok
    /\ ~env.llm_ok

\* C16: when the chat completion raises, QuestionWriter completes; the questions
\* are the retrieved questions without case-insensitive repeats, in retrieval
\* order, cut to target_max; and the mid-pipeline validation has run on them.
C16_FallbackQuestions ==
    WroteByFallback
       => LET first == FirstOccurrences(env.retrieved)
          IN  /\ pc \in {"Reviewer", "Done"}
              /\ Len(questions) = Min(TargetMax, Cardinality(first))
              /\ \A k \in 1..Len(questions) :
                    questions[k] = env.retrieved[KthOf(first, k)]
              /\ schema_ok = (/\ Len(questions) >= MidMinQuestions
                              /\ \A k \in 1..Len(shortlisted) :
                                    StrStrip(candidates[shortlisted[k]].name) # <<>>)
              /\ schema_ok = (violations = <<>>)

\* C16 witness: 13 questions retrieved, every second one a repeat in another
\* case, so 7 are kept and validation passes
C16_Witness ==
    /\ WroteByFallback
    /\ Len(env.retrieved) = 13
    /\ Len(questions) = 7
    /\ questions[2] = env.retrieved[3]
    /\ schema_ok
    /\ pc = "Done"

\* C17: no stage raises out of the pipeline.
C17_NoStageRaises == pc # "Failed"


Banks == DOMAIN bank

\* the construction decides in this step between loading and rebuilding
Checks(p) == bank[p].pc = "check" /\ bank'[p].pc # "check"
Rebuilds(p) == bank'[p].decided = "rebuild"

\* no readable fingerprint is persisted, or the corpus content, the row count
\* or the model identifier differs from what it records
FingerprintDiffers(p) ==
    \/ ~cache_meta.exists
    \/ ~cache_meta.readable
    \/ cache_meta.corpus_sha256 # JoinLines(bank[p].corpus)
    \/ cache_meta.rows # Len(bank[p].corpus)
    \/ cache_meta.model # EMBED_MODEL

\* the CSV's modification time or the vector dimension differs from what the
\* fingerprint records, or the array file is missing
FileStateDiffers(p) ==
    \/ ~cache_vec.exists
    \/ /\ cache_meta.exists
       /\ cache_meta.readable
       /\ \/ cache_meta.csv_mtime # csv.mtime
          \/ cache_meta.dim # 1536

\* a construction that has decided to load never embeds the corpus, one that
\* has decided to rebuild never loads
KeepsDecision ==
    \A p \in Banks :
       /\ bank[p].decided = "load" => bank[p].emb.src \in {"none", "loaded"}
       /\ bank[p].decided = "rebuild" => bank[p].emb.src \in {"none", "built"}
       /\ bank[p].pc = "ready" => bank[p].emb.src # "none"

\* C18 as stated: a construction rebuilds exactly when the corpus content, the
\* row count or the model identifier differs from the persisted fingerprint
C18_Original ==
    /\ [][\A p \in Banks : Checks(p) => (Rebuilds(p) <=> FingerprintDiffers(p))]_vars
    /\ []KeepsDecision

\* C18 (amended): a construction rebuilds exactly when no readable fingerprint
\* or no array file is persisted, or the newline-joined corpus text, the row
\* count, the model identifier, the CSV's modification time or the vector
\* dimension differs from what the fingerprint records; otherwise it loads the
\* cached vectors and does not embed the corpus.
C18_RebuildIffMismatch ==
    /\ [][\A p \in Banks :
             Checks(p) => (Rebuilds(p) <=> (FingerprintDiffers(p) \/ FileStateDiffers(p)))]_vars
    /\ []KeepsDecision

\* C18 witness: after the CSV was saved with the rows it had, one construction
\* has rebuilt the cache and a later one, with the same corpus, has loaded it
C18_Witness ==
    /\ csv.mtime = 1
    /\ cache_meta.exists /\ cache_meta.readable /\ cache_meta.csv_mtime = 1
    /\ bank[1].pc = "ready" /\ bank[1].decided = "rebuild"
    /\ bank[2].pc = "ready" /\ bank[2].decided = "load"
    /\ bank[2].emb.src = "loaded"
    /\ bank[2].emb.of = bank[2].corpus
    /\ bank[1].corpus = bank[2].corpus

\* C19: a construction that validated the fingerprint and then read the array
\* file got the complete array of its own corpus, as the fingerprint says.
C19_ReaderSeesWholeIndex ==
    \A p \in Banks :
       (bank[p].decided = "load" /\ bank[p].pc \in {"ready", "failed"})
          => /\ bank[p].pc = "ready"
             /\ bank[p].emb.state = "complete"
             /\ bank[p].emb.of = bank[p].corpus
             /\ bank[p].emb.model = EMBED_MODEL

\* C19, the mismatched half alone: a reader whose load succeeded holds the
\* vectors of its own corpus
C19_LoadedIndexMatches ==
    \A p \in Banks :
       (bank[p].decided = "load" /\ bank[p].pc = "ready")
          => (bank[p].emb.state = "complete" /\ bank[p].emb.of = bank[p].corpus)


\* no caller is inside create_event_or_fallback
Quiescent == \A t \in Threads : thr[t].pc = "idle"

\* every call admitted so far has failed or is still under way
OnlyFailures == \A t \in Threads : ~thr[t].won /\ thr[t].pc # "record_success"

\* C20: with several callers sharing the breaker, which starts Closed with zero
\* failures, once `threshold` or more failing calls have returned, no call has
\* succeeded and none is under way, the breaker is Open with a failure count
\* of at least `threshold`.
C20_NoLostFailure ==
    (Quiescent /\ OnlyFailures /\ consec >= breaker.threshold)
       => (breaker.state = "OPEN" /\ breaker.failures >= breaker.threshold)

\* main has left, by return or by exception
MainOver == main.status # "running"

\* C21: when main is over after a pipeline run that ended, the report has been
\* written, carrying schema_ok and violations of the final state, also when the
\* final validation failed.
C21_ArtifactEmitted ==
    (pc = "Done" /\ MainOver) => main.report

\* C22: no step of a run removes, replaces or reorders a recorded violation
\* message: the list before a step is a prefix of the list after it.
C22_ViolationsOnlyGrow ==
    [][IsPrefix(violations, violations')]_vars

\* C22 witness: QuestionWriter, Reviewer (both of its validations) and main's
\* final validation have each appended to the list
C22_Witness ==
    /\ pc = "Done"
    /\ MainOver
    /\ HasRun("Reviewer")
    /\ violations = <<MsgTooFew, MsgTooFew, MsgFinalError, MsgFinalError>>

\* "Can you share a recent example using {skill}?", written out for one skill
ExampleQuestion(skill) ==
    <<"C","a","n"," ","y","o","u"," ","s","h","a","r","e"," ","a"," ",
      "r","e","c","e","n","t"," ","e","x","a","m","p","l","e"," ",
      "u","s","i","n","g"," ">> \o skill \o <<"?">>

\* the questions a step adds: those of the new list that no question of the old
\* list gives once stripped
AddedQuestions == {q \in Range(questions') : \A o \in Range(questions) : StrStrip(o) # q}

\* C23: every question the Reviewer adds is the template question for one of
\* the job's must-haves, and the Reviewer leaves the must-have list as it was.
C23_RepairUsesMustHaves ==
    [][(pc = "Reviewer" /\ pc' # "Reviewer")
          => /\ jd' = jd
             /\ \A q \in AddedQuestions :
                   \E m \in Range(jd.must_haves) : q = ExampleQuestion(m)]_vars

\* C23 witness: the Reviewer has run on fewer than 8 questions and the list now
\* holds retrieved questions followed by one template question per must-have
C23_Witness ==
    /\ pc = "Done"
    /\ HasRun("Reviewer")
    /\ Len(jd.must_haves) = 3
    /\ Len(questions) = 5
    /\ \A i \in 1..3 : questions[2 + i] = ExampleQuestion(jd.must_haves[i])
    /\ \A i \in 1..2 : \A m \in Range(jd.must_haves) : questions[i] # ExampleQuestion(m)

\* C24: in the scenario (must-haves Python and SQL, five candidates, two of them
\* with both skills) a run that is past the Analyst has not failed, has
\* needs_disambiguation set and has at least 3 candidates shortlisted.
C24_ScenarioWidens ==
    HasRun("Analyst")
       => /\ pc # "Failed"
          /\ needs_disambiguation
          /\ Len(shortlisted) >= MinShortlist

\* the mid-pipeline contract of a state: every shortlisted name non-blank and
\* between 5 and 20 non-blank questions
NonBlankQuestions == {k \in 1..Len(questions) : StrStrip(questions[k]) # <<>>}
MidContract ==
    /\ \A k \in 1..Len(shortlisted) : StrStrip(candidates[shortlisted[k]].name) # <<>>
    /\ Cardinality(NonBlankQuestions) >= 5
    /\ Cardinality(NonBlankQuestions) <= 20

\* the final contract of a state: the field constraints of FinalOutput
FinalContract ==
    /\ Len(jd.title) >= 2
    /\ Len(shortlisted) >= 1
    /\ Len(questions) >= 5
    /\ Len(questions) <= 20

\* C25: a state that meets the final contract meets the mid-pipeline contract,
\* and schema_ok after the Reviewer implies the mid-pipeline contract.
C25_FinalAtLeastAsStrict ==
    /\ FinalContract => MidContract
    /\ (HasRun("Reviewer") /\ schema_ok) => MidContract

\* QuestionWriter was the last node to run, with the question bank and the chat
\* completion both answering
WroteTailored ==
    /\ trace = <<"Screener", "Analyst", "QuestionWriter">>
    /\ env.kb_ok
    /\ env.llm_ok

\* the lines of the answer that survive cleaning and the length filter
KeptLines ==
    SelectSeq([i \in 1..Len(env.lines) |-> CleanLine(env.lines[i])],
              LAMBDA l : Len(l) > MinLineLength)

\* the positions of the retrieved questions that repeat, case ignored, neither
\* an earlier retrieved question nor a kept line
Eligible ==
    {i \in FirstOccurrences(env.retrieved) :
        \A k \in 1..Len(KeptLines) : StrLower(KeptLines[k]) # StrLower(env.retrieved[i])}

\* C26: when the transformation succeeds, the questions hold no two entries equal
\* ignoring case and at most target_max entries; they hold at least target_min
\* whenever kept lines and retrieved questions together give target_min distinct
\* ones; they are the distinct kept lines in order, followed, only while fewer
\* than target_min are held, by the retrieved questions not yet present, in
\* retrieval order.
C26_TailoredQuestions ==
    WroteTailored
       => LET first == FirstOccurrences(KeptLines)
              T     == Cardinality(first)
              total == T + Cardinality(Eligible)
          IN  /\ \A i, j \in 1..Len(questions) :
                    i # j => StrLower(questions[i]) # StrLower(questions[j])
              /\ Len(questions) <= TargetMax
              /\ total >= TargetMin => Len(questions) >= TargetMin
              /\ Len(questions) = IF T >= TargetMin THEN Min(T, TargetMax)
                                  ELSE Min(TargetMin, total)
              /\ \A k \in 1..Len(questions) :
                    questions[k] = IF k <= T THEN KeptLines[KthOf(first, k)]
                                   ELSE env.retrieved[KthOf(Eligible, k - T)]

\* C26 witness: five lines give two distinct questions, one of them the first
\* retrieved question; the top-up skips that one and stops at 8
C26_Witness ==
    /\ WroteTailored
    /\ Len(env.lines) = 5
    /\ Len(env.retrieved) = MaxRetrieved
    /\ Len(questions) = TargetMin
    /\ questions[2] = BankQuestion(1, FALSE)
    /\ questions[3] = BankQuestion(2, FALSE)
    /\ questions[TargetMin] = BankQuestion(TargetMin - 1, FALSE)

\* the positions of the must-haves that are not blank and repeat no earlier one
\* once stripped, case ignored
FirstMustHaves(must) ==
    {i \in 1..Len(must) :
        /\ StrStrip(must[i]) # <<>>
        /\ \A j \in 1..(i - 1) : StrLower(StrStrip(must[j])) # StrLower(StrStrip(must[i]))}

\* no blank entry, no two entries equal ignoring case
MustHavesClean ==
    /\ \A i \in 1..Len(jd.must_haves) : StrStrip(jd.must_haves[i]) # <<>>
    /\ \A i, j \in 1..Len(jd.must_haves) :
          i # j => StrLower(jd.must_haves[i]) # StrLower(jd.must_haves[j])

\* C27: the Screener leaves the first occurrence of every non-blank must-have,
\* stripped, in the original order; from then on the list has no blank entry and
\* no two entries equal ignoring case, no later stage changes it, and
\* needs_disambiguation is true whenever the list has fewer than 3 entries.
C27_MustHavesUnique ==
    /\ [](HasRun("Screener")
            => /\ MustHavesClean
               /\ Len(jd.must_haves) < 3 => needs_disambiguation)
    /\ [][/\ pc = "Screener"
             => LET first == FirstMustHaves(jd.must_haves)
                IN  /\ Len(jd'.must_haves) = Cardinality(first)
                    /\ \A k \in 1..Cardinality(first) :
                          jd'.must_haves[k] = StrStrip(jd.must_haves[KthOf(first, k)])
           /\ pc # "Screener" => jd'.must_haves = jd.must_haves]_vars

\* C27 witness: the run is over; the Screener kept "A" and "B", stripped, and
\* raised the flag for the two of them
C27_Witness ==
    /\ pc = "Done"
    /\ HasRun("Reviewer")
    /\ jd.must_haves = <<<<"A">>, <<"B">>>>
    /\ needs_disambiguation

\* C28: every remote calendar insert that failed has been recorded on the
\* breaker (consec counts the failures recorded since the last success).
C28_RemoteInsertsGuarded ==
    main.remote_failures <= consec

\* C29: when QuestionWriter, its retrieval done, finishes, it has set schema_ok to
\* whether the mid-pipeline contract holds of the state it leaves, it has appended
\* violation messages exactly when the contract fails, and it hands over to the
\* Reviewer or ends the run: it does not raise.
C29_WriterValidates ==
    [][(pc = "QuestionWriter" /\ env.kb_ok /\ pc' # "QuestionWriter")
          => /\ schema_ok' = MidContract'
             /\ IsPrefix(violations, violations')
             /\ (Len(violations') > Len(violations)) = ~MidContract'
             /\ pc' \in {"Reviewer", "Done"}]_vars

\* C29 witness: QuestionWriter has finished with a blank shortlisted name and
\* fewer than 5 questions, both recorded, and the run goes on to the Reviewer
C29_Witness ==
    /\ trace = <<"Screener", "Analyst", "QuestionWriter">>
    /\ pc = "Reviewer"
    /\ ~schema_ok
    /\ ~policy_violation
    /\ violations = <<MsgBadName, MsgTooFew>>

\* analyst(..., top_n_wide=7, widen_factor=0.8)
TopNWide == 7
WidenPercent == 80

\* the selection the widening branch is meant to leave: the selection repeated
\* with the wider count and the scaled threshold, or the top 3 by score when
\* that one has fewer than 3 members
WidenedSelection ==
    LET wide == _shortlist(jd, candidates, TopNWide,
                           (cfg.min_score_first * WidenPercent) \div 100).list
    IN  IF Len(wide) < MinShortlist
        THEN Take(SortedByScoreDesc(candidates), MinShortlist)
        ELSE wide

\* C30: once the Analyst has run, if the initial selection had fewer than 3
\* members and the pool at least 3 candidates, needs_disambiguation is set and
\* the shortlist is the widened selection; otherwise the shortlist is the
\* initial selection.
C30_AnalystWidening ==
    HasRun("Analyst")
       => IF Len(InitialSelection) < MinShortlist /\ Len(candidates) >= MinShortlist
          THEN /\ pc # "Failed"
               /\ needs_disambiguation
               /\ shortlisted = WidenedSelection
          ELSE /\ pc # "Failed"
               /\ shortlisted = InitialSelection

\* C31: a Reviewer step that finds the shortlist empty and the candidate list
\* not empty leaves exactly one candidate shortlisted, one of highest score and
\* the earliest such in input order; a Reviewer step that finds the shortlist
\* non-empty leaves it as it was.
C31_RepairPromotesBest ==
    [][(pc = "Reviewer" /\ pc' # "Reviewer")
          => IF shortlisted = <<>> /\ candidates # <<>>
             THEN /\ Len(shortlisted') = 1
                  /\ \A k \in 1..Len(candidates) :
                        \/ candidates[k].score < candidates[shortlisted'[1]].score
                        \/ /\ candidates[k].score = candidates[shortlisted'[1]].score
                           /\ k >= shortlisted'[1]
             ELSE shortlisted' = shortlisted]_vars

\* C31 witness: analyst ran with top_n_first = 0 and selected nobody; of two
\* candidates with the same score the Reviewer promoted the first
C31_Witness ==
    /\ pc = "Done"
    /\ HasRun("Reviewer")
    /\ cfg.top_n_first = 0
    /\ Len(candidates) = 2
    /\ candidates[1].score = candidates[2].score
    /\ shortlisted = <<1>>

\* C32: once the Reviewer has run, the question list has no blank entry and no
\* two entries equal ignoring case.
C32_RepairedQuestionsDistinct ==
    HasRun("Reviewer")
       => /\ \A i \in 1..Len(questions) : StrStrip(questions[i]) # <<>>
          /\ \A i, j \in 1..Len(questions) :
                i # j => StrLower(questions[i]) # StrLower(questions[j])

\* the candidates after a step are those before it, in the same order, with at
\* most their scores changed
SameCandidatesButScores ==
    /\ Len(candidates') = Len(candidates)
    /\ \A i \in 1..Len(candidates) :
          candidates'[i] = [candidates[i] EXCEPT !.score = candidates'[i].score]

\* C33: a Screener step changes at most the must-have list and
\* needs_disambiguation; an Analyst step at most the candidates' scores, the
\* shortlist and needs_disambiguation; a QuestionWriter step at most questions,
\* schema_ok and violations; a Reviewer step at most questions, the shortlist,
\* schema_ok and violations.  No step adds or removes a candidate and only the
\* Analyst changes a score.
C33_StagesWriteOwnFields ==
    [][/\ pc = "Screener"
             => /\ jd' = [jd EXCEPT !.must_haves = jd'.must_haves]
                /\ UNCHANGED <<candidates, shortlisted, questions, policy_violation,
                               schema_ok, violations>>
       /\ pc = "Analyst"
             => /\ SameCandidatesButScores
                /\ UNCHANGED <<jd, questions, policy_violation, schema_ok, violations>>
       /\ pc = "QuestionWriter"
             => UNCHANGED <<jd, candidates, shortlisted, policy_violation,
                            needs_disambiguation>>
       /\ pc = "Reviewer"
             => UNCHANGED <<jd, candidates, policy_violation, needs_disambiguation>>]_vars

\* C33 witness: all four stages have run, each having written a field of its
\* own: the must-haves were cleaned and the flag raised, the candidates scored
\* and one shortlisted, questions written and repaired, violations recorded
C33_Witness ==
    /\ pc = "Done"
    /\ trace = <<"Screener", "Analyst", "QuestionWriter", "Reviewer">>
    /\ needs_disambiguation
    /\ Len(candidates) = 2
    /\ candidates[1].score > 0
    /\ candidates[1].skills = <<sk_A, sk_b, sk_c>>
    /\ shortlisted # <<>>
    /\ Len(questions) >= MidMinQuestions
    /\ violations # <<>>

\* the run that is under way or was the last to end has its question bank built
BankReady == bank[main.run].pc = "ready"

C34_LaterRunsLoad ==
    \A p \in DOMAIN bank :
       (p > 1 /\ bank[p - 1].pc = "ready") => bank[p].decided # "rebuild"

\* C35: when main is over with candidates to schedule (the e-mails drafted for
\* them count them), an invite file has been written in the run.
C35_InviteWritten ==
    (main.status # "running" /\ main.emails > 0) => ics_file.written

\* C36: the breaker changes state only along Closed->Open, Open->HalfOpen,
\* HalfOpen->Closed and HalfOpen->Open; in particular an Open breaker never
\* becomes Closed in one step, also when a call admitted before it opened
\* records its outcome afterwards.
C36_BreakerTransitions ==
    [][breaker'.state # breaker.state
          => <<breaker.state, breaker'.state>> \in
                {<<"CLOSED", "OPEN">>, <<"OPEN", "HALF">>,
                 <<"HALF", "CLOSED">>, <<"HALF", "OPEN">>}]_vars

\* C38: with create_event_or_fallback calls made one at a time, between calls
\* the breaker is Closed only with failures < threshold, Open only with
\* failures >= threshold and a resume time set (the time of the trip plus the
\* cooldown), and it is never HalfOpen.
C38_BreakerStateConsistent ==
    /\ breaker.state \in {"CLOSED", "OPEN"}
    /\ breaker.state = "CLOSED" => breaker.failures < breaker.threshold
    /\ breaker.state = "OPEN"
          => /\ breaker.failures >= breaker.threshold
             /\ breaker.open_until >= breaker.cooldown_s
             /\ breaker.open_until <= now + breaker.cooldown_s

\* C38 witness: the attempt admitted in HalfOpen has failed (one more
\* consecutive failure than the threshold) and the breaker is Open again
C38_Witness ==
    /\ breaker.state = "OPEN"
    /\ call.status = "fallback_ics"
    /\ consec > breaker.threshold
    /\ breaker.open_until > breaker.cooldown_s

\* a selection holds only members of the candidate list, none of them twice,
\* in order of non-increasing score
WellFormedSelection(list) ==
    /\ \A k \in 1..Len(list) : list[k] \in 1..Len(candidates)
    /\ \A k, l \in 1..Len(list) :
          k < l => /\ list[k] # list[l]
                   /\ candidates[list[k]].score >= candidates[list[l]].score

C39_VerdictMatchesContract ==
    (pc = "Done" /\ MainOver)
        => /\ schema_ok = FinalContract
           /\ ~schema_ok => violations # <<>>

\* C40: when the Analyst has just returned and needs_disambiguation is not set,
\* every shortlisted candidate has a score of at least min_score_first.
C40_BelowThresholdFlagged ==
    (pc = "QuestionWriter" /\ ~needs_disambiguation)
        => \A k \in 1..Len(shortlisted) :
              candidates[shortlisted[k]].score >= cfg.min_score_first

\* C40 as the code has it: when the Analyst has just returned and
\* needs_disambiguation is not set, either every shortlisted candidate has a
\* score of at least min_score_first, or no candidate of the pool has and the
\* shortlist is the top top_n_first of the pool by score.
C40_BelowThresholdOnlyByFallback ==
    (pc = "QuestionWriter" /\ ~needs_disambiguation)
        => \/ \A k \in 1..Len(shortlisted) :
                 candidates[shortlisted[k]].score >= cfg.min_score_first
           \/ /\ \A i \in 1..Len(candidates) :
                    candidates[i].score < cfg.min_score_first
              /\ shortlisted = Take(SortedByScoreDesc(candidates), cfg.top_n_first)

\* C40 witness: the Analyst has returned three candidates, all below the
\* threshold, and the flag is not set
C40_Witness ==
    /\ pc = "QuestionWriter"
    /\ ~needs_disambiguation
    /\ Len(shortlisted) >= 3
    /\ \A k \in 1..Len(shortlisted) :
          candidates[shortlisted[k]].score < cfg.min_score_first

=============================================================================
